---- MODULE Spec2Model ----
(***************************************************************************)
(* A model of tdtxt, a parser for the todo.txt line format.                *)
(*                                                                         *)
(* A byte is a one-character string, a byte buffer a sequence of bytes.    *)
(* Rust's Option<T> is a sequence of length at most one: None is << >>,    *)
(* Some(v) is <<v>>.  A parse function returns the record                  *)
(* [p |-> the parser afterwards, out |-> Some(value) or None for Err].     *)
(* The model is of the default build (no `chrono`, no `serde` feature).    *)
(***************************************************************************)
EXTENDS Integers, Sequences, FiniteSets, TLC

VARIABLES
    pc,             \* where the run stands
    parser,         \* Task::parse: the Parser
    state,          \* Task::parse: the local `state`
    priority,       \* Task::parse: the local `priority`
    date_compound,  \* Task::parse: the local `date_compound`
    result,         \* what Task::from_str returned
    text,           \* what Task::to_string returned
    builder,        \* the TaskBuilder
    built,          \* what TaskBuilder::build returned
    reparsed,       \* what Task::from_str returned on `text`
    desc,           \* the text handed to Description::new, then the Description
    indexing,       \* the locals of Description::index
    components,     \* the Components iterator
    emitted,        \* the items Components::next has returned
    ord             \* the Priority values compared and the orderings found

vars == <<pc, parser, state, priority, date_compound, result, text,
          builder, built, reparsed, desc, indexing, components, emitted,
          ord>>

-----------------------------------------------------------------------------
(* Bounds of the model. *)

\* Longest description text appended to a line handed to Task::from_str.
MaxLineDesc == 3

\* Longest text handed to Description::new on its own.
MaxDescLen == 5

\* Longest description text handed to TaskBuilder::build.
MaxBuildDesc == 2

\* Longest buffer handed to Cursor::new on its own, and the largest count
\* handed to Cursor::consume_n and Cursor::advance.
MaxCursorLen == 3

MaxCount == 4

\* Longest text of letters, spaces and line breaks handed to the from_str of
\* each type.
MaxFromStrLen == 3

\* Largest position and largest offset, either way, handed to the operations
\* of ByteSpan on their own.
MaxPos == 4

\* Most tokens and words of a line whose tokens stand in any order.
MaxTokens == 4

\* Most lines of a buffer handed to repeated Task::parse calls.
MaxLines == 3

\* Width in bits the model gives BytePos (PosWidth is u32 in the source; the
\* model checker's integers are 32-bit signed, so the wrap-around of
\* BytePos::offset is kept at a narrower width).
PosBits == 16

-----------------------------------------------------------------------------
(* Option, bytes and small helpers. *)

None == << >>

Some(v) == <<v>>

Min(a, b) == IF a < b THEN a ELSE b

Max(a, b) == IF a > b THEN a ELSE b

Digits == <<"0", "1", "2", "3", "4", "5", "6", "7", "8", "9">>

DigitBytes == {Digits[i] : i \in 1..10}

\* b - b'0' for an ASCII digit b.
DigitValue(b) == (CHOOSE i \in 1..10 : Digits[i] = b) - 1

\* The variants of enum Priority in declaration order: A = 0, B, ..., Z.
PriorityVariants ==
    <<"A", "B", "C", "D", "E", "F", "G", "H", "I", "J", "K", "L", "M",
      "N", "O", "P", "Q", "R", "S", "T", "U", "V", "W", "X", "Y", "Z">>

Priority == {PriorityVariants[i] : i \in 1..Len(PriorityVariants)}

\* `*self as u8`: the discriminant of a Priority.
Discriminant(p) ==
    (CHOOSE i \in 1..Len(PriorityVariants) : PriorityVariants[i] = p) - 1

\* b'A'..=b'Z'
UpperBytes == Priority

\* u8::is_ascii_whitespace: U+0020 SPACE, U+0009 TAB, U+000A LINE FEED,
\* U+000C FORM FEED, U+000D CARRIAGE RETURN.
AsciiWhitespace == {" ", "\t", "\n", "\f", "\r"}

is_ascii_whitespace(b) == b \in AsciiWhitespace

\* Every byte value the model's buffers are made of.
Byte ==
    DigitBytes \cup UpperBytes \cup AsciiWhitespace
        \cup {"a", "x", "(", ")", "-", "+", "@", ":"}

-----------------------------------------------------------------------------
(* Cursor (src/src/parse.rs). *)

Cursor_new(bytes) == [bytes |-> bytes, index |-> 0]

in_bounds(c, index) == Len(c.bytes) > index

get(c, index) == IF in_bounds(c, index) THEN Some(c.bytes[index + 1]) ELSE None

nth(c, n) == get(c, c.index + n)

first(c) == nth(c, 0)

second(c) == nth(c, 1)

\* Cursor::advance_to without the clamp to the length of the buffer.
advance_to_unclamped(c, index) == [c EXCEPT !.index = index]

advance_to(c, index) == [c EXCEPT !.index = Min(Len(c.bytes), index)]

advance(c, amount) == advance_to(c, c.index + amount)

is_eof(c) == c.index >= Len(c.bytes)

\* Cursor::consume: [p |-> cursor afterwards, out |-> the byte, if any].
consume(c) ==
    IF first(c) = None
    THEN [p |-> c, out |-> None]
    ELSE [p |-> advance(c, 1), out |-> first(c)]

\* Cursor::consume_n: [p |-> cursor afterwards, out |-> the bytes, if any].
consume_n(c, n) ==
    IF in_bounds(c, c.index + n)
    THEN [p |-> advance(c, n),
          out |-> Some(SubSeq(c.bytes, c.index + 1, c.index + n))]
    ELSE [p |-> c, out |-> None]

\* The predicate is given as the set of bytes it holds of.
RECURSIVE consume_while(_, _)
consume_while(c, predicate) ==
    IF first(c) # None /\ first(c)[1] \in predicate
    THEN consume_while(consume(c).p, predicate)
    ELSE c

consume_whitespaces(c) ==
    consume_while(c, {b \in Byte : is_ascii_whitespace(b)})

\* consume_non_whitespaces that stops after one byte.
consume_non_whitespaces_one_byte(c) == consume(c).p

consume_non_whitespaces(c) ==
    consume_while(c, {b \in Byte : ~is_ascii_whitespace(b)})

-----------------------------------------------------------------------------
(* Parser (src/src/parse.rs): a struct holding one Cursor, modelled as the  *)
(* cursor itself.                                                           *)

Parser_new(bytes) == Cursor_new(bytes)

parse_u8(p) == consume(p)

parse_alpha_upper(p) ==
    IF first(p) # None /\ first(p)[1] \in UpperBytes
    THEN [p |-> advance(p, 1), out |-> first(p)]
    ELSE [p |-> p, out |-> None]

parse_digit(p) ==
    IF first(p) # None /\ first(p)[1] \in DigitBytes
    THEN [p |-> advance(p, 1), out |-> Some(DigitValue(first(p)[1]))]
    ELSE [p |-> p, out |-> None]

\* Parser::parse_until that returns None for an empty run as well.
parse_until_non_empty(p, terminator) ==
    IF is_eof(p) \/ first(p) = Some(terminator)
    THEN [p |-> p, out |-> None]
    ELSE LET start == p.index
             q == consume_while(p, Byte \ {terminator})
         IN  [p |-> q, out |-> Some(SubSeq(q.bytes, start + 1, q.index))]

parse_until(p, terminator) ==
    IF is_eof(p)
    THEN [p |-> p, out |-> None]
    ELSE LET start == p.index
             q == consume_while(p, Byte \ {terminator})
         IN  [p |-> q, out |-> Some(SubSeq(q.bytes, start + 1, q.index))]

expect_u8(p, expect) ==
    IF first(p) # None /\ first(p)[1] = expect
    THEN [p |-> advance(p, 1), out |-> Some(expect)]
    ELSE [p |-> p, out |-> None]

expect_whitespace(p) ==
    IF first(p) # None /\ is_ascii_whitespace(first(p)[1])
    THEN [p |-> advance(p, 1), out |-> Some("unit")]
    ELSE [p |-> p, out |-> None]

expect_slice(p, expect) ==
    LET len == Len(expect)
        index_end == p.index + (IF len > 0 THEN len - 1 ELSE 0)
    IN  IF in_bounds(p, index_end)
        THEN LET slice == SubSeq(p.bytes, p.index + 1, index_end + 1)
             IN  IF slice = expect
                 THEN [p |-> advance(p, len), out |-> Some(slice)]
                 ELSE [p |-> p, out |-> None]
        ELSE [p |-> p, out |-> None]

peek(p) == first(p)

\* Parse::parse_opt, given the parser before the attempt and what
\* Self::parse returned on it.
parse_opt(parser_pre, parsed) ==
    IF parsed.out = None
    THEN [p |-> parser_pre, out |-> None]
    ELSE parsed

\* A run of `<call>.ok_or(..)?` statements: the parser, the values read so
\* far, and whether one of the `?` has returned Err (the later statements are
\* then not run).
Start(p) == [p |-> p, vals |-> << >>, failed |-> FALSE]

\* One more `<call>.ok_or(..)?`, where r is what the call returned on acc.p.
Question(acc, r) ==
    IF acc.failed THEN acc
    ELSE IF r.out = None THEN [p |-> r.p, vals |-> acc.vals, failed |-> TRUE]
    ELSE [p |-> r.p, vals |-> Append(acc.vals, r.out[1]), failed |-> FALSE]

\* parser.parse_digit().ok_or(..)?
then_parse_digit(acc) == Question(acc, parse_digit(acc.p))

\* parser.parse_alpha_upper().ok_or(..)?
then_parse_alpha_upper(acc) == Question(acc, parse_alpha_upper(acc.p))

\* parser.expect_u8(expect).ok_or(..)?
then_expect_u8(acc, expect) == Question(acc, expect_u8(acc.p, expect))

\* A step over as many bytes as expect has, whatever they are.
then_expect_slice_unchecked(acc, expect) ==
    Question(acc, [p |-> advance(acc.p, Len(expect)), out |-> Some(expect)])

\* parser.expect_slice(expect).ok_or(..)?
then_expect_slice(acc, expect) == Question(acc, expect_slice(acc.p, expect))

-----------------------------------------------------------------------------
(* State (src/src/state.rs). *)

State_default == "Open"

\* impl fmt::Display for State
State_to_string(s) == IF s = "Done" THEN <<"x">> ELSE << >>

\* impl Parse for State
State_parse(p) ==
    LET r == expect_u8(p, "x")
    IN  IF r.out # None
        THEN [p |-> r.p, out |-> Some("Done")]
        ELSE [p |-> r.p, out |-> None]

-----------------------------------------------------------------------------
(* Priority (src/src/priority.rs). *)

Priority_cmp_unreversed(a, b) ==
    IF Discriminant(a) < Discriminant(b) THEN "Less"
    ELSE IF Discriminant(a) > Discriminant(b) THEN "Greater"
    ELSE "Equal"

\* impl Ord for Priority
Priority_cmp(a, b) ==
    LET inner == IF Discriminant(a) < Discriminant(b) THEN "Less"
                 ELSE IF Discriminant(a) > Discriminant(b) THEN "Greater"
                 ELSE "Equal"
    IN  CASE inner = "Less" -> "Greater"
          [] inner = "Greater" -> "Less"
          [] inner = "Equal" -> "Equal"

\* impl fmt::Display for Priority
Priority_to_string(p) == <<"(", p, ")">>

\* impl TryFrom<char> for Priority
Priority_try_from(value) == IF value \in Priority THEN Some(value) ELSE None

\* Self::try_from(priority).map_err(..)?, on the letter read last
then_try_from(acc) ==
    Question(acc, [p |-> acc.p,
                   out |-> Priority_try_from(acc.vals[Len(acc.vals)])])

\* Ok(priority) at the end of Priority::parse, or the Err of a `?` before it.
Priority_parse_return(acc) ==
    IF acc.failed
    THEN [p |-> acc.p, out |-> None]
    ELSE [p |-> acc.p, out |-> Some(acc.vals[3])]

\* impl Parse for Priority
Priority_parse(p) ==
    Priority_parse_return(
        then_expect_slice(
            then_try_from(then_parse_alpha_upper(then_expect_u8(Start(p), "("))),
            <<")", " ">>))

-----------------------------------------------------------------------------
(* Date and DateCompound (src/src/date.rs). *)

\* SimpleDate::from_ymd_opt with months up to 99.
SimpleDate_from_ymd_opt_any_month(year, month, day) ==
    IF month \in 1..99 /\ day \in 1..31
    THEN Some([year |-> year, month |-> month, day |-> day])
    ELSE None

\* SimpleDate::from_ymd_opt
SimpleDate_from_ymd_opt(year, month, day) ==
    IF month \in 1..12 /\ day \in 1..31
    THEN Some([year |-> year, month |-> month, day |-> day])
    ELSE None

\* Date::from_ymd_opt, over SimpleDate
Date_from_ymd_opt(year, month, day) == SimpleDate_from_ymd_opt(year, month, day)

\* The decimal digits of n >= 0, most significant first.
RECURSIVE DecimalDigits(_)
DecimalDigits(n) ==
    IF n < 10 THEN <<Digits[n + 1]>>
    ELSE DecimalDigits(n \div 10) \o <<Digits[(n % 10) + 1]>>

RECURSIVE ZeroPad(_, _)
ZeroPad(s, width) == IF Len(s) >= width THEN s ELSE ZeroPad(<<"0">> \o s, width)

\* format!("{:0width$}", n): the sign counts towards the width and the
\* zeros follow it; a number wider than the width is written in full.
FormatZeroPadded(n, width) ==
    IF n >= 0
    THEN ZeroPad(DecimalDigits(n), width)
    ELSE <<"-">> \o ZeroPad(DecimalDigits(-n), width - 1)

\* impl fmt::Display for SimpleDate
Date_to_string(d) ==
    FormatZeroPadded(d.year, 4) \o <<"-">> \o FormatZeroPadded(d.month, 2)
        \o <<"-">> \o FormatZeroPadded(d.day, 2)

\* The arithmetic and the return of Date::parse, after its ten reads.
Date_parse_return(acc) ==
    IF acc.failed
    THEN [p |-> acc.p, out |-> None]
    ELSE LET v == acc.vals
             year == (v[1] * 1000) + (v[2] * 100) + (v[3] * 10) + v[4]
             month == (v[6] * 10) + v[7]
             day == (v[9] * 10) + v[10]
         IN  [p |-> acc.p, out |-> Date_from_ymd_opt(year, month, day)]

Date_parse_year(p) ==
    then_parse_digit(then_parse_digit(then_parse_digit(then_parse_digit(Start(p)))))

Date_parse_month(acc) ==
    then_parse_digit(then_parse_digit(then_expect_u8(acc, "-")))

Date_parse_day(acc) ==
    then_parse_digit(then_parse_digit(then_expect_u8(acc, "-")))

\* impl Parse for Date
Date_parse(p) ==
    Date_parse_return(Date_parse_day(Date_parse_month(Date_parse_year(p))))

\* impl_fromstr!(Date) once Date::parse has returned r.
Date_from_str_return(r) ==
    IF r.out = None THEN None
    ELSE IF is_eof(r.p) THEN r.out
    ELSE None

\* impl_fromstr!(Date)
Date_from_str(s) == Date_from_str_return(Date_parse(Parser_new(s)))

Created(created) == [variant |-> "Created", created |-> created]

Completed(created, completed) ==
    [variant |-> "Completed", created |-> created, completed |-> completed]

\* impl fmt::Display for DateCompound
DateCompound_to_string(dc) ==
    IF dc.variant = "Created"
    THEN Date_to_string(dc.created)
    ELSE Date_to_string(dc.completed) \o <<" ">> \o Date_to_string(dc.created)

\* DateCompound::parse with the first date taken as the creation date.
DateCompound_parse_date2_swapped(date1, date2) ==
    IF /\ date2.out # None
       /\ (peek(date2.p) = None \/ is_ascii_whitespace(peek(date2.p)[1]))
    THEN [p |-> date2.p, out |-> Some(Completed(date1.out[1], date2.out[1]))]
    ELSE [p |-> date1.p, out |-> Some(Created(date1.out[1]))]

\* DateCompound::parse from the lookahead after the second date.
DateCompound_parse_date2(date1, date2) ==
    IF /\ date2.out # None
       /\ (peek(date2.p) = None \/ is_ascii_whitespace(peek(date2.p)[1]))
    THEN [p |-> date2.p, out |-> Some(Completed(date2.out[1], date1.out[1]))]
    ELSE [p |-> date1.p, out |-> Some(Created(date1.out[1]))]

\* DateCompound::parse trying the second date whether or not a whitespace
\* byte stood before it.
DateCompound_parse_whitespace_optional(date1, ws) ==
    DateCompound_parse_date2(date1, parse_opt(ws.p, Date_parse(ws.p)))

\* DateCompound::parse from `p_copy.expect_whitespace()`, whose result is ws.
DateCompound_parse_whitespace(date1, ws) ==
    IF ws.out # None
    THEN DateCompound_parse_date2(date1, parse_opt(ws.p, Date_parse(ws.p)))
    ELSE [p |-> date1.p, out |-> Some(Created(date1.out[1]))]

\* DateCompound::parse after `Date::parse_opt(parser)`, whose result is date1.
DateCompound_parse_date1(date1) ==
    IF date1.out = None
    THEN [p |-> date1.p, out |-> None]
    ELSE DateCompound_parse_whitespace(date1, expect_whitespace(date1.p))

\* impl Parse for DateCompound
DateCompound_parse(p) == DateCompound_parse_date1(parse_opt(p, Date_parse(p)))

-----------------------------------------------------------------------------
(* BytePos and ByteSpan (src/src/span.rs). *)

PosModulus == 2 ^ PosBits

\* BytePos::from_usize: `value as u32`
BytePos_from_usize(value) == value % PosModulus

\* BytePos::offset: `(self.0 as i32 + offset) as PosWidth`
BytePos_offset(pos, offset) == (pos + offset) % PosModulus

\* Cursor::byte_pos
byte_pos(c) == BytePos_from_usize(c.index)

\* ByteSpan::new
ByteSpan_new(low, high) ==
    IF low > high
    THEN [low |-> high, high |-> low]
    ELSE [low |-> low, high |-> high]

\* ByteSpan::offset_low that moves the high end of the span.
offset_low_moves_high(span, offset) ==
    [low |-> span.low, high |-> BytePos_offset(span.high, offset)]

\* ByteSpan::offset_low
offset_low(span, offset) ==
    [low |-> BytePos_offset(span.low, offset), high |-> span.high]

\* BytePos::MIN and BytePos::MAX
BytePos_MIN == 0

BytePos_MAX == PosModulus - 1

\* ByteSpan::from_range: a bound is [kind |-> "Included", "Excluded" or
\* "Unbounded", pos |-> its position].
from_range(start, end) ==
    ByteSpan_new(IF start.kind = "Included" THEN start.pos
                 ELSE IF start.kind = "Excluded"
                 THEN BytePos_offset(start.pos, 1)
                 ELSE BytePos_MIN,
                 IF end.kind = "Included" THEN BytePos_offset(end.pos, -1)
                 ELSE IF end.kind = "Excluded" THEN end.pos
                 ELSE BytePos_MAX)

\* ByteSpan::with_low
with_low(span, low) == [low |-> low, high |-> span.high]

\* ByteSpan::with_high
with_high(span, high) == [low |-> span.low, high |-> high]

\* ByteSpan::offset_high
offset_high(span, offset) ==
    [low |-> span.low, high |-> BytePos_offset(span.high, offset)]

\* ByteSpan::offset
ByteSpan_offset(span, offset) ==
    [low |-> BytePos_offset(span.low, offset),
     high |-> BytePos_offset(span.high, offset)]

\* ByteSpan::union
union(a, b) == [low |-> Min(a.low, b.low), high |-> Max(a.high, b.high)]

\* ByteSpan::len
ByteSpan_len(span) == span.high - span.low

\* impl Index<ByteSpan> for str, through ByteSpan::to_range_usize
str_index(s, span) == SubSeq(s, span.low + 1, span.high)

-----------------------------------------------------------------------------
(* Description (src/src/description.rs). *)

ProjectRange_new(full) == [full |-> full, name |-> offset_low(full, 1)]

ContextRange_new(full) == [full |-> full, name |-> offset_low(full, 1)]

\* CustomRange::new with the value left out of the full span.
CustomRange_new_without_value(key, separator, value) ==
    [full |-> union(key, separator), key |-> key, separator |-> separator,
     value |-> value]

CustomRange_new(key, separator, value) ==
    [full |-> union(key, value), key |-> key, separator |-> separator,
     value |-> value]

\* Description::read_project
read_project(c, word_start) ==
    LET q == consume_non_whitespaces(c)
    IN  [p |-> q, out |-> ProjectRange_new(ByteSpan_new(word_start, byte_pos(q)))]

\* Description::read_context
read_context(c, word_start) ==
    LET q == consume_non_whitespaces(c)
    IN  [p |-> q, out |-> ContextRange_new(ByteSpan_new(word_start, byte_pos(q)))]

\* fn is_key_value_byte, as the set of bytes it holds of
KeyValueBytes == {b \in Byte : ~is_ascii_whitespace(b) /\ b # ":"}

\* Description::read_custom without the look at the byte after the value.
read_custom_value_any_tail(key_span, separator_span, value_start, c3) ==
    IF ByteSpan_len(ByteSpan_new(value_start, byte_pos(c3))) # 0
    THEN [p |-> c3,
          out |-> Some(CustomRange_new(key_span, separator_span,
                                       ByteSpan_new(value_start, byte_pos(c3))))]
    ELSE [p |-> c3, out |-> None]

\* Description::read_custom from the second consume_while, which left the
\* cursor c3.
read_custom_value(key_span, separator_span, value_start, c3) ==
    IF ~(\/ ByteSpan_len(ByteSpan_new(value_start, byte_pos(c3))) = 0
         \/ (first(c3) # None /\ ~is_ascii_whitespace(first(c3)[1])))
    THEN [p |-> c3,
          out |-> Some(CustomRange_new(key_span, separator_span,
                                       ByteSpan_new(value_start, byte_pos(c3))))]
    ELSE [p |-> c3, out |-> None]

\* Description::read_custom once the ':' is consumed, which left the cursor c2.
read_custom_separator(key_span, c2) ==
    IF /\ ByteSpan_len(key_span) > 0
       /\ first(c2) # None
       /\ first(c2)[1] \in KeyValueBytes
    THEN read_custom_value(
             key_span,
             offset_low(ByteSpan_new(byte_pos(c2), byte_pos(c2)), -1),
             byte_pos(c2), consume_while(c2, KeyValueBytes))
    ELSE [p |-> c2, out |-> None]

\* Description::read_custom from the first consume_while, which left the
\* cursor c1.
read_custom_key(c1, word_start) ==
    IF first(c1) = Some(":")
    THEN read_custom_separator(ByteSpan_new(word_start, byte_pos(c1)),
                               consume(c1).p)
    ELSE [p |-> c1, out |-> None]

\* Description::read_custom: [p |-> the cursor afterwards (not restored when
\* no tag is read), out |-> the CustomRange, if any].
read_custom(c, word_start) ==
    read_custom_key(consume_while(c, KeyValueBytes), word_start)

\* The locals of Description::index when the loop is entered.
index_start(s) ==
    [cursor |-> Cursor_new(s), projects |-> << >>, contexts |-> << >>,
     custom |-> << >>, running |-> ~is_eof(Cursor_new(s))]

\* The end of an iteration of the loop of Description::index with the cursor
\* left where the iteration found it.
index_continue_cursor_kept(ix, c) == [ix EXCEPT !.running = ~is_eof(c)]

\* The end of an iteration of the loop of Description::index, with the
\* cursor at c.
index_continue(ix, c) == [ix EXCEPT !.cursor = c, !.running = ~is_eof(c)]

\* projects.push(Self::read_project(..)), where r is what read_project returned
index_project(ix, r) ==
    index_continue([ix EXCEPT !.projects = Append(@, r.out)], r.p)

\* contexts.push(Self::read_context(..)), where r is what read_context returned
index_context(ix, r) ==
    index_continue([ix EXCEPT !.contexts = Append(@, r.out)], r.p)

\* The arm `try read custom tag` without consume_non_whitespaces when no tag
\* is read.
index_custom_word_left(ix, r) ==
    IF r.out # None
    THEN index_continue([ix EXCEPT !.custom = Append(@, r.out[1])], r.p)
    ELSE index_continue(ix, r.p)

\* The arm `try read custom tag`, where r is what read_custom returned.
index_custom(ix, r) ==
    IF r.out # None
    THEN index_continue([ix EXCEPT !.custom = Append(@, r.out[1])], r.p)
    ELSE index_continue(ix, consume_non_whitespaces(r.p))

\* The match of Description::index without the guards on cursor.second() of
\* the project and context arms.
index_word_lone_sigil(ix, c) ==
    IF first(c) = None
    THEN [ix EXCEPT !.cursor = c, !.running = FALSE]
    ELSE IF first(c) = Some("+")
    THEN index_project(ix, read_project(c, byte_pos(c)))
    ELSE IF first(c) = Some("@")
    THEN index_context(ix, read_context(c, byte_pos(c)))
    ELSE IF second(c) # None /\ ~is_ascii_whitespace(second(c)[1])
    THEN index_custom(ix, read_custom(c, byte_pos(c)))
    ELSE index_continue(ix, consume_non_whitespaces(c))

\* The match of Description::index on (cursor.first(), cursor.second()), with
\* the cursor c at the start of a word.
index_word(ix, c) ==
    IF first(c) = None
    THEN [ix EXCEPT !.cursor = c, !.running = FALSE]
    ELSE IF second(c) # None /\ ~is_ascii_whitespace(second(c)[1])
    THEN IF first(c) = Some("+")
         THEN index_project(ix, read_project(c, byte_pos(c)))
         ELSE IF first(c) = Some("@")
         THEN index_context(ix, read_context(c, byte_pos(c)))
         ELSE index_custom(ix, read_custom(c, byte_pos(c)))
    ELSE index_continue(ix, consume_non_whitespaces(c))

\* One iteration of the `while !cursor.is_eof()` loop of Description::index,
\* entered with the loop condition true; running tells whether the loop goes
\* on afterwards.
index_iteration(ix) == index_word(ix, consume_whitespaces(ix.cursor))

RECURSIVE index_loop(_)
index_loop(ix) == IF ix.running THEN index_loop(index_iteration(ix)) ELSE ix

\* Description::index
index(s) ==
    LET ix == index_loop(index_start(s))
    IN  [projects |-> ix.projects, contexts |-> ix.contexts, custom |-> ix.custom]

\* Description::new
Description_new(s) ==
    LET i == index(s)
    IN  [raw |-> s, projects |-> i.projects, contexts |-> i.contexts,
         custom |-> i.custom]

\* impl fmt::Display for Description
Description_to_string(d) == d.raw

\* Description::parse that leaves the line break unconsumed.
Description_parse_newline_left(p) ==
    LET r == parse_until(p, "\n")
    IN  IF r.out = None
        THEN [p |-> r.p, out |-> None]
        ELSE [p |-> r.p, out |-> Some(Description_new(r.out[1]))]

\* impl Parse for Description (the bytes of the model are ASCII, so
\* std::str::from_utf8 succeeds)
Description_parse(p) ==
    LET r == parse_until(p, "\n")
    IN  IF r.out = None
        THEN [p |-> r.p, out |-> None]
        ELSE [p |-> parse_u8(r.p).p, out |-> Some(Description_new(r.out[1]))]

-----------------------------------------------------------------------------
(* The iterators over a Description (src/src/description.rs). *)

\* ProjectIter (simple_iter!), run to its end: ProjectRange::index of every
\* range, in the order next() returns them.
projects(d) == [i \in 1..Len(d.projects) |-> str_index(d.raw, d.projects[i].name)]

\* ContextIter (simple_iter!), run to its end.
contexts(d) == [i \in 1..Len(d.contexts) |-> str_index(d.raw, d.contexts[i].name)]

\* CustomIter (simple_iter!), run to its end: CustomRange::index of every range.
custom(d) ==
    [i \in 1..Len(d.custom) |->
        <<str_index(d.raw, d.custom[i].key), str_index(d.raw, d.custom[i].value)>>]

\* Components::new
Components_new(d) ==
    [raw |-> d.raw, project_ranges |-> d.projects,
     context_ranges |-> d.contexts, custom_ranges |-> d.custom, byte_idx |-> 0]

\* Components::next: [it |-> the iterator afterwards, out |-> the item].
Components_next(it) ==
    IF it.byte_idx >= Len(it.raw)
    THEN [it |-> it, out |-> None]
    ELSE LET has_p == it.project_ranges # << >>
             has_c == it.context_ranges # << >>
             has_u == it.custom_ranges # << >>
             project_range == it.project_ranges[1]
             context_range == it.context_ranges[1]
             custom_range == it.custom_ranges[1]
             end0 == Len(it.raw)
             end1 == IF has_p THEN Min(end0, project_range.full.low) ELSE end0
             end2 == IF has_c THEN Min(end1, context_range.full.low) ELSE end1
             range_end == IF has_u THEN Min(end2, custom_range.full.low) ELSE end2
         IN  IF has_p /\ project_range.full.low = it.byte_idx
             THEN [it |-> [it EXCEPT !.project_ranges = Tail(@),
                                     !.byte_idx = project_range.full.high],
                   out |-> Some([kind |-> "Project",
                                 text |-> str_index(it.raw, project_range.full)])]
             ELSE IF has_c /\ context_range.full.low = it.byte_idx
             THEN [it |-> [it EXCEPT !.context_ranges = Tail(@),
                                     !.byte_idx = context_range.full.high],
                   out |-> Some([kind |-> "Context",
                                 text |-> str_index(it.raw, context_range.full)])]
             ELSE IF has_u /\ custom_range.full.low = it.byte_idx
             THEN [it |-> [it EXCEPT !.custom_ranges = Tail(@),
                                     !.byte_idx = custom_range.full.high],
                   out |-> Some([kind |-> "Custom",
                                 key |-> str_index(it.raw, custom_range.key),
                                 separator |->
                                     str_index(it.raw, custom_range.separator),
                                 value |-> str_index(it.raw, custom_range.value)])]
             ELSE [it |-> [it EXCEPT !.byte_idx = range_end],
                   out |-> Some([kind |-> "Text",
                                 text |-> SubSeq(it.raw, it.byte_idx + 1,
                                                 range_end)])]

-----------------------------------------------------------------------------
(* Task and TaskBuilder (src/src/task.rs). *)

\* [String]::join
RECURSIVE join(_, _)
join(s, sep) ==
    IF s = << >> THEN << >>
    ELSE IF Len(s) = 1 THEN s[1]
    ELSE s[1] \o sep \o join(Tail(s), sep)

\* impl fmt::Display for Task
Task_to_string(t) ==
    join((IF t.state # "Open" THEN <<State_to_string(t.state)>> ELSE << >>)
           \o (IF t.priority # None
               THEN <<Priority_to_string(t.priority[1])>> ELSE << >>)
           \o (IF t.date_compound # None
               THEN <<DateCompound_to_string(t.date_compound[1])>> ELSE << >>)
           \o <<Description_to_string(t.description)>>,
         <<" ">>)

\* try_parse! without the look at what follows the token: whatever
\* <$ty>::parse returned is kept.
try_parse_commit_no_lookahead(p, r) ==
    IF r.out = None THEN [p |-> p, out |-> None]
    ELSE IF expect_whitespace(r.p).out # None
    THEN [p |-> expect_whitespace(r.p).p, out |-> r.out]
    ELSE [p |-> r.p, out |-> r.out]

\* try_parse! once parse_opt has returned r on the copy of the parser p.
try_parse_commit(p, r) ==
    IF r.out = None THEN [p |-> p, out |-> None]
    ELSE IF is_eof(r.p) THEN [p |-> r.p, out |-> r.out]
    ELSE IF expect_whitespace(r.p).out # None
    THEN [p |-> expect_whitespace(r.p).p, out |-> r.out]
    ELSE [p |-> p, out |-> None]

\* The macro try_parse! of Task::parse, given the parser before the attempt
\* and what <$ty>::parse returned on a copy of it.
try_parse(p, parsed) == try_parse_commit(p, parse_opt(p, parsed))

\* `try_parse!(parser: State)`
try_parse_State(p) == try_parse(p, State_parse(p))

\* `try_parse!(parser: Priority)` that looks for the priority after the dates
\* as well.
try_parse_Priority_after_dates(p) ==
    try_parse(try_parse(p, DateCompound_parse(p)).p,
              Priority_parse(try_parse(p, DateCompound_parse(p)).p))

\* `try_parse!(parser: Priority)`
try_parse_Priority(p) == try_parse(p, Priority_parse(p))

\* `try_parse!(parser: DateCompound)`
try_parse_DateCompound(p) == try_parse(p, DateCompound_parse(p))

Task(s, pr, dc, d) ==
    [state |-> s, priority |-> pr, date_compound |-> dc, description |-> d]

\* Task::parse from Description::parse, whose result is d.
Task_parse_description(s, pr, dc, d) ==
    IF d.out = None
    THEN [p |-> d.p, out |-> None]
    ELSE [p |-> d.p,
          out |-> Some(Task(IF s.out = None THEN State_default ELSE s.out[1],
                            pr.out, dc.out, d.out[1]))]

\* Task::parse from `try_parse!(parser: DateCompound)`, whose result is dc.
Task_parse_date_compound(s, pr, dc) ==
    Task_parse_description(s, pr, dc, Description_parse(dc.p))

\* Task::parse from `try_parse!(parser: Priority)`, whose result is pr.
Task_parse_priority(s, pr) ==
    Task_parse_date_compound(s, pr, try_parse_DateCompound(pr.p))

\* Task::parse from `try_parse!(parser: State)`, whose result is s.
Task_parse_state(s) == Task_parse_priority(s, try_parse_Priority(s.p))

\* impl Parse for Task
Task_parse(p) == Task_parse_state(try_parse_State(p))

\* impl FromStr for Task: Ok(task) is Some(task), Err(ParseTaskError) is None.
Task_from_str(s) == Task_parse(Parser_new(s)).out

\* TaskBuilder::new
TaskBuilder_new == [state |-> None, priority |-> None, date_compound |-> None]

\* TaskBuilder::build that leaves the state at its default.
TaskBuilder_build_default_state(b, description) ==
    Task(State_default, b.priority, b.date_compound,
         Description_new(description))

\* TaskBuilder::build
TaskBuilder_build(b, description) ==
    Task(IF b.state = None THEN State_default ELSE b.state[1],
         b.priority, b.date_compound, Description_new(description))

-----------------------------------------------------------------------------
(* The places of Task::from_str that abort the program when their check     *)
(* fails: slice indexes, expect, assert_eq!, debug_assert! and the          *)
(* subtraction of ByteSpan::len.  Each operator tells whether the call      *)
(* aborts.                                                                  *)

\* `&bytes[from..to]` aborts unless from <= to <= bytes.len().
slice_index_fails(bytes, from, to) == ~(from <= to /\ to <= Len(bytes))

\* Parser::expect_slice: `&self.cursor.bytes[self.cursor.index..=index_end]`
expect_slice_panics(p, expect) ==
    /\ in_bounds(p, p.index + (IF Len(expect) > 0 THEN Len(expect) - 1 ELSE 0))
    /\ slice_index_fails(
           p.bytes, p.index,
           p.index + (IF Len(expect) > 0 THEN Len(expect) - 1 ELSE 0) + 1)

\* Cursor::consume_while: `self.consume().expect("valid byte")`
RECURSIVE consume_while_panics(_, _)
consume_while_panics(c, predicate) ==
    /\ first(c) # None
    /\ first(c)[1] \in predicate
    /\ \/ consume(c).out = None
       \/ consume_while_panics(consume(c).p, predicate)

\* Parser::parse_until: `&self.cursor.bytes[start..self.cursor.index]`
parse_until_panics(p, terminator) ==
    /\ ~is_eof(p)
    /\ \/ consume_while_panics(p, Byte \ {terminator})
       \/ slice_index_fails(p.bytes, p.index,
                            consume_while(p, Byte \ {terminator}).index)

\* ByteSpan::len: `self.high.as_usize() - self.low.as_usize()`
ByteSpan_len_panics(span) == span.high < span.low

\* Description::read_custom from the second consume_while, run on c2.
read_custom_value_panics(c2) ==
    \/ consume_while_panics(c2, KeyValueBytes)
    \/ ByteSpan_len_panics(
           ByteSpan_new(byte_pos(c2),
                        byte_pos(consume_while(c2, KeyValueBytes))))

\* Description::read_custom once the ':' is consumed, which left the cursor c2.
read_custom_separator_panics(key_span, c2) ==
    \/ ByteSpan_len_panics(key_span)
    \/ /\ ByteSpan_len(key_span) > 0
       /\ first(c2) # None
       /\ first(c2)[1] \in KeyValueBytes
       /\ read_custom_value_panics(c2)

\* Description::read_custom from the first consume_while, which left the
\* cursor c1: `assert_eq!(cursor.consume(), Some(b':'))`
read_custom_key_panics(c1, word_start) ==
    /\ first(c1) = Some(":")
    /\ \/ consume(c1).out # Some(":")
       \/ read_custom_separator_panics(ByteSpan_new(word_start, byte_pos(c1)),
                                       consume(c1).p)

\* Description::read_custom
read_custom_panics(c, word_start) ==
    \/ consume_while_panics(c, KeyValueBytes)
    \/ read_custom_key_panics(consume_while(c, KeyValueBytes), word_start)

\* The arm `try read custom tag`, where r is what read_custom returned.
index_custom_panics(r) ==
    /\ r.out = None
    /\ consume_while_panics(r.p, Byte \ AsciiWhitespace)

\* The match of Description::index, with the cursor c at the start of a word.
index_match_panics(c) ==
    /\ first(c) # None
    /\ IF second(c) # None /\ ~is_ascii_whitespace(second(c)[1])
       THEN IF first(c) \in {Some("+"), Some("@")}
            THEN consume_while_panics(c, Byte \ AsciiWhitespace)
            ELSE \/ read_custom_panics(c, byte_pos(c))
                 \/ index_custom_panics(read_custom(c, byte_pos(c)))
       ELSE consume_while_panics(c, Byte \ AsciiWhitespace)

\* `debug_assert!(cursor.first().map_or(true, |b| b.is_ascii_whitespace()))`
\* with the cursor c the arm left; the arm that breaks does not reach it.
index_debug_assert_fails(c) ==
    first(c) # None /\ ~is_ascii_whitespace(first(c)[1])

\* One iteration of the loop of Description::index with the cursor c after
\* consume_whitespaces.
index_word_panics(ix, c) ==
    \/ index_match_panics(c)
    \/ /\ first(c) # None
       /\ index_debug_assert_fails(index_word(ix, c).cursor)

\* One iteration of the loop of Description::index.
index_iteration_panics(ix) ==
    \/ consume_while_panics(ix.cursor, AsciiWhitespace)
    \/ index_word_panics(ix, consume_whitespaces(ix.cursor))

\* Description::index from the locals ix on.
RECURSIVE index_loop_panics(_)
index_loop_panics(ix) ==
    /\ ix.running
    /\ \/ index_iteration_panics(ix)
       \/ index_loop_panics(index_iteration(ix))

\* Description::parse, where r is what parse_until returned.
Description_new_panics(r) ==
    r.out # None /\ index_loop_panics(index_start(r.out[1]))

\* impl Parse for Description
Description_parse_panics(p) ==
    \/ parse_until_panics(p, "\n")
    \/ Description_new_panics(parse_until(p, "\n"))

\* Priority::parse, where acc is the run of `?` before expect_slice.
Priority_parse_slice_panics(acc) ==
    ~acc.failed /\ expect_slice_panics(acc.p, <<")", " ">>)

\* impl Parse for Priority
Priority_parse_panics(p) ==
    Priority_parse_slice_panics(
        then_try_from(then_parse_alpha_upper(then_expect_u8(Start(p), "("))))

-----------------------------------------------------------------------------
(* The inputs. *)

\* All sequences over S of length at most n.
SeqsUpTo(S, n) == UNION {[1..k -> S] : k \in 0..n}

Date1Text == <<"2", "0", "0", "0", "-", "0", "1", "-", "0", "1">>

Date2Text == <<"1", "9", "7", "0", "-", "1", "2", "-", "3", "1">>

\* Month 13: no date.
BadDateText == <<"2", "0", "2", "1", "-", "1", "3", "-", "0", "1">>

SP == <<" ">>

\* What a line may hold where the state marker stands.
StateTexts == {<< >>, <<"x", " ">>, <<"x">>, <<"x", "\t">>, <<"X", " ">>}

\* What a line may hold where the priority stands.
PriorityTexts ==
    {<< >>, <<"(", "A", ")", " ">>, <<"(", "Z", ")", " ">>, <<"(", "A", ")">>,
     <<"(", "a", ")", " ">>, <<"(", "1", ")", " ">>, <<"(", ":", ")", " ">>}

\* What a line may hold where the dates stand.
DateTexts ==
    {<< >>, Date1Text, Date1Text \o SP, Date1Text \o SP \o Date2Text,
     Date1Text \o SP \o Date2Text \o SP, Date2Text \o SP \o Date1Text \o SP,
     BadDateText \o SP, Date1Text \o SP \o BadDateText \o SP}

LineDescBytes == {"a", " ", "\n"}

\* The lines handed to Task::from_str.
Lines ==
    {s \o p \o d \o t : s \in StateTexts, p \in PriorityTexts, d \in DateTexts,
                        t \in SeqsUpTo(LineDescBytes, MaxLineDesc)}

DescBytes == {"a", "+", "@", ":", " ", "\t"}

\* The texts handed to Description::new.
DescTexts == SeqsUpTo(DescBytes, MaxDescLen)

Idle == << >>

-----------------------------------------------------------------------------
(* Spec: Task::from_str on a line, one action per step of Task::parse, and  *)
(* then Task::to_string on the Task it returned and Task::from_str on that  *)
(* text.                                                                    *)

Init ==
    /\ \E line \in Lines : parser = Parser_new(line)
    /\ pc = "state"
    /\ state = Idle /\ priority = Idle /\ date_compound = Idle
    /\ result = Idle /\ text = Idle
    /\ builder = Idle /\ built = Idle /\ reparsed = Idle
    /\ desc = Idle /\ indexing = Idle /\ components = Idle /\ emitted = Idle
    /\ ord = Idle

\* let state = try_parse!(parser: State).unwrap_or_default();
ParseState ==
    /\ pc = "state"
    /\ LET r == try_parse_State(parser)
       IN  /\ parser' = r.p
           /\ state' = Some(IF r.out = None THEN State_default ELSE r.out[1])
    /\ pc' = "priority"
    /\ UNCHANGED <<priority, date_compound, result, text, builder, built,
                   reparsed, desc, indexing, components, emitted, ord>>

\* let priority = try_parse!(parser: Priority);
ParsePriority ==
    /\ pc = "priority"
    /\ LET r == try_parse_Priority(parser)
       IN  /\ parser' = r.p
           /\ priority' = Some(r.out)
    /\ pc' = "date_compound"
    /\ UNCHANGED <<state, date_compound, result, text, builder, built,
                   reparsed, desc, indexing, components, emitted, ord>>

\* let date_compound = try_parse!(parser: DateCompound);
ParseDateCompound ==
    /\ pc = "date_compound"
    /\ LET r == try_parse_DateCompound(parser)
       IN  /\ parser' = r.p
           /\ date_compound' = Some(r.out)
    /\ pc' = "description"
    /\ UNCHANGED <<state, priority, result, text, builder, built,
                   reparsed, desc, indexing, components, emitted, ord>>

\* Description::parse(parser).map_err(|_| ParseTaskError)?, and the return.
ParseDescription ==
    /\ pc = "description"
    /\ LET r == Description_parse(parser)
       IN  /\ parser' = r.p
           /\ result' =
                 IF r.out = None
                 THEN [ok |-> FALSE, task |-> None]
                 ELSE [ok |-> TRUE,
                       task |-> Some(Task(state[1], priority[1],
                                          date_compound[1], r.out[1]))]
    /\ pc' = "done"
    /\ UNCHANGED <<state, priority, date_compound, text, builder, built,
                   reparsed, desc, indexing, components, emitted, ord>>

\* task.to_string() on the Task that Task::from_str returned.
Display ==
    /\ pc = "done"
    /\ result.ok
    /\ text' = Some(Task_to_string(result.task[1]))
    /\ pc' = "formatted"
    /\ UNCHANGED <<parser, state, priority, date_compound, result, builder,
                   built, reparsed, desc, indexing, components, emitted, ord>>

\* Task::from_str on the text that to_string returned
FromStr ==
    /\ pc = "formatted"
    /\ reparsed' = Some(Task_from_str(text[1]))
    /\ pc' = "reparsed"
    /\ UNCHANGED <<parser, state, priority, date_compound, result, text,
                   builder, built, desc, indexing, components, emitted, ord>>

Next ==
    \/ ParseState
    \/ ParsePriority
    \/ ParseDateCompound
    \/ ParseDescription
    \/ Display
    \/ FromStr

Spec == Init /\ [][Next]_vars

-----------------------------------------------------------------------------
(* SpecBuilder: a TaskBuilder, its setters in any order, build, and then    *)
(* Task::to_string on the Task built and Task::from_str on that text.       *)

BuilderDates ==
    {[year |-> 2000, month |-> 1, day |-> 1],
     [year |-> 1970, month |-> 12, day |-> 31],
     [year |-> 5, month |-> 2, day |-> 30]}

BuilderDateCompounds ==
    {Created(d) : d \in BuilderDates}
        \cup {Completed(d, e) : d \in BuilderDates, e \in BuilderDates}

BuildDescBytes == {"a", "x", " "}

\* The descriptions handed to TaskBuilder::build.
BuildDescs == SeqsUpTo(BuildDescBytes, MaxBuildDesc)

InitBuilder ==
    /\ builder = TaskBuilder_new
    /\ pc = "builder"
    /\ parser = Idle /\ state = Idle /\ priority = Idle /\ date_compound = Idle
    /\ result = Idle /\ text = Idle /\ built = Idle /\ reparsed = Idle
    /\ desc = Idle /\ indexing = Idle /\ components = Idle /\ emitted = Idle
    /\ ord = Idle

\* TaskBuilder::state
SetState ==
    /\ pc = "builder"
    /\ \E s \in {"Open", "Done"} : builder' = [builder EXCEPT !.state = Some(s)]
    /\ UNCHANGED <<pc, parser, state, priority, date_compound, result, text,
                   built, reparsed, desc, indexing, components, emitted, ord>>

\* TaskBuilder::priority
SetPriority ==
    /\ pc = "builder"
    /\ \E p \in Priority : builder' = [builder EXCEPT !.priority = Some(p)]
    /\ UNCHANGED <<pc, parser, state, priority, date_compound, result, text,
                   built, reparsed, desc, indexing, components, emitted, ord>>

\* TaskBuilder::date_compound
SetDateCompound ==
    /\ pc = "builder"
    /\ \E dc \in BuilderDateCompounds :
          builder' = [builder EXCEPT !.date_compound = Some(dc)]
    /\ UNCHANGED <<pc, parser, state, priority, date_compound, result, text,
                   built, reparsed, desc, indexing, components, emitted, ord>>

\* TaskBuilder::build, which takes &mut self and may be called again.
Build ==
    /\ pc \in {"builder", "built"}
    /\ \E d \in BuildDescs : built' = Some(TaskBuilder_build(builder, d))
    /\ pc' = "built"
    /\ UNCHANGED <<parser, state, priority, date_compound, result, text,
                   builder, reparsed, desc, indexing, components, emitted, ord>>

\* t.to_string() on the Task built
Format ==
    /\ pc = "built"
    /\ text' = Some(Task_to_string(built[1]))
    /\ pc' = "formatted"
    /\ UNCHANGED <<parser, state, priority, date_compound, result, builder,
                   built, reparsed, desc, indexing, components, emitted, ord>>

NextBuilder ==
    \/ SetState
    \/ SetPriority
    \/ SetDateCompound
    \/ Build
    \/ Format
    \/ FromStr

SpecBuilder == InitBuilder /\ [][NextBuilder]_vars

-----------------------------------------------------------------------------
(* SpecDesc: Description::new on a text, one action per iteration of the    *)
(* loop of Description::index, and then the Components iterator, one action *)
(* per call of next.                                                        *)

InitDesc ==
    /\ \E s \in DescTexts :
          /\ desc = [raw |-> s, projects |-> << >>, contexts |-> << >>,
                     custom |-> << >>]
          /\ indexing = index_start(s)
    /\ pc = "index"
    /\ parser = Idle /\ state = Idle /\ priority = Idle /\ date_compound = Idle
    /\ result = Idle /\ text = Idle
    /\ builder = Idle /\ built = Idle /\ reparsed = Idle
    /\ components = Idle /\ emitted = Idle /\ ord = Idle

\* One iteration of `while !cursor.is_eof()` in Description::index.
IndexIteration ==
    /\ pc = "index"
    /\ indexing.running
    /\ indexing' = index_iteration(indexing)
    /\ UNCHANGED <<pc, parser, state, priority, date_compound, result, text,
                   builder, built, reparsed, desc, components, emitted, ord>>

\* The loop of Description::index is over: index returns, Description::new
\* returns the Description, and Description::components is called on it.
IndexReturn ==
    /\ pc = "index"
    /\ ~indexing.running
    /\ desc' = [raw |-> desc.raw, projects |-> indexing.projects,
                contexts |-> indexing.contexts, custom |-> indexing.custom]
    /\ components' = Components_new(desc')
    /\ emitted' = << >>
    /\ pc' = "components"
    /\ UNCHANGED <<parser, state, priority, date_compound, result, text,
                   builder, built, reparsed, indexing, ord>>

\* Components::next
ComponentsNext ==
    /\ pc = "components"
    /\ LET r == Components_next(components)
       IN  /\ components' = r.it
           /\ emitted' = IF r.out = None THEN emitted
                         ELSE Append(emitted, r.out[1])
           /\ pc' = IF r.out = None THEN "done" ELSE "components"
    /\ UNCHANGED <<parser, state, priority, date_compound, result, text,
                   builder, built, reparsed, desc, indexing, ord>>

NextDesc ==
    \/ IndexIteration
    \/ IndexReturn
    \/ ComponentsNext

SpecDesc == InitDesc /\ [][NextDesc]_vars

-----------------------------------------------------------------------------
(* SpecDate: Date::parse on a text; DateCompound::parse on a text; and      *)
(* Date::from_ymd_opt on a year, a month and a day, then to_string on the   *)
(* Date and Date::from_str on that text.  parser holds the text parsed and  *)
(* result what Date::parse or DateCompound::parse returned; built holds the *)
(* arguments of from_ymd_opt and what it returned.                          *)

DateYearTexts ==
    {<<"2", "0", "2", "1">>, <<"0", "0", "0", "0">>, <<"9", "9", "9", "9">>,
     <<"2", "0", "a", "1">>}

DateDashTexts == {<<"-">>, <<"x">>}

DateMonthTexts ==
    {<<"0", "0">>, <<"0", "1">>, <<"0", "2">>, <<"1", "2">>, <<"1", "3">>,
     <<"1", "a">>}

DateDayTexts ==
    {<<"0", "0">>, <<"0", "1">>, <<"1", "0">>, <<"3", "0">>, <<"3", "1">>,
     <<"3", "2">>, <<"a", "1">>}

\* What may follow the ten bytes.
DateTailTexts == {<< >>, <<"x">>, <<" ">>, <<"0">>}

\* The texts handed to Date::parse: ten bytes, or fewer, and a tail.
DateParseTexts ==
    {SubSeq(y \o a \o m \o b \o d, 1, k) \o t :
        y \in DateYearTexts, a \in DateDashTexts, m \in DateMonthTexts,
        b \in DateDashTexts, d \in DateDayTexts, k \in {4, 7, 9, 10},
        t \in DateTailTexts}

\* What may stand between the two dates of a date compound.
CompoundSeparatorTexts == {<< >>, <<" ">>, <<"\t">>, <<" ", " ">>, <<"x">>}

\* What may stand where the second date of a date compound does.
CompoundSecondTexts ==
    {<< >>, Date2Text, BadDateText, SubSeq(Date2Text, 1, 9)}

\* What may follow the second date.
CompoundTailTexts == {<< >>, <<"x">>, <<" ">>, <<"\n">>}

\* The texts handed to DateCompound::parse.
DateCompoundTexts ==
    {d1 \o s \o d2 \o t :
        d1 \in {Date1Text, BadDateText}, s \in CompoundSeparatorTexts,
        d2 \in CompoundSecondTexts, t \in CompoundTailTexts}

\* The years, months and days handed to Date::from_ymd_opt: year is an i16,
\* month and day are u8.
YmdYears == {-32768, -1, 0, 5, 999, 1970, 9999, 10000, 32767}

YmdMonths == 0..13

YmdDays == 0..32

InitDate ==
    /\ \/ /\ \E t \in DateParseTexts : parser = Parser_new(t)
          /\ built = Idle
          /\ pc = "date_parse"
       \/ /\ \E t \in DateCompoundTexts : parser = Parser_new(t)
          /\ built = Idle
          /\ pc = "date_compound_parse"
       \/ /\ \E y \in YmdYears, m \in YmdMonths, d \in YmdDays :
                built = [year |-> y, month |-> m, day |-> d, date |-> None]
          /\ parser = Idle
          /\ pc = "from_ymd_opt"
    /\ state = Idle /\ priority = Idle /\ date_compound = Idle
    /\ result = Idle /\ text = Idle /\ builder = Idle /\ reparsed = Idle
    /\ desc = Idle /\ indexing = Idle /\ components = Idle /\ emitted = Idle
    /\ ord = Idle

\* Date::parse
DateParse ==
    /\ pc = "date_parse"
    /\ LET r == Date_parse(parser)
       IN  /\ parser' = r.p
           /\ result' = r.out
    /\ pc' = "date_parsed"
    /\ UNCHANGED <<state, priority, date_compound, text, builder, built,
                   reparsed, desc, indexing, components, emitted, ord>>

\* DateCompound::parse
DateCompoundParse ==
    /\ pc = "date_compound_parse"
    /\ LET r == DateCompound_parse(parser)
       IN  /\ parser' = r.p
           /\ result' = r.out
    /\ pc' = "date_compound_parsed"
    /\ UNCHANGED <<state, priority, date_compound, text, builder, built,
                   reparsed, desc, indexing, components, emitted, ord>>

\* Date::from_ymd_opt
DateFromYmdOpt ==
    /\ pc = "from_ymd_opt"
    /\ built' = [built EXCEPT
                    !.date = Date_from_ymd_opt(built.year, built.month, built.day)]
    /\ pc' = "date"
    /\ UNCHANGED <<parser, state, priority, date_compound, result, text,
                   builder, reparsed, desc, indexing, components, emitted, ord>>

\* date.to_string() on the Date that from_ymd_opt returned
DateFormat ==
    /\ pc = "date"
    /\ built.date # None
    /\ text' = Some(Date_to_string(built.date[1]))
    /\ pc' = "date_formatted"
    /\ UNCHANGED <<parser, state, priority, date_compound, result, builder,
                   built, reparsed, desc, indexing, components, emitted, ord>>

\* Date::from_str on that text
DateFromStr ==
    /\ pc = "date_formatted"
    /\ reparsed' = Date_from_str(text[1])
    /\ pc' = "date_reparsed"
    /\ UNCHANGED <<parser, state, priority, date_compound, result, text,
                   builder, built, desc, indexing, components, emitted, ord>>

NextDate ==
    \/ DateParse
    \/ DateCompoundParse
    \/ DateFromYmdOpt
    \/ DateFormat
    \/ DateFromStr

SpecDate == InitDate /\ [][NextDate]_vars

-----------------------------------------------------------------------------
(* SpecCursor: a Cursor over a buffer and its operations in any order.      *)
(* parser holds the cursor; result holds the last operation, its argument,  *)
(* the index it was called at and what it returned.                         *)

CursorBytes == {"a", " "}

\* The buffers handed to Cursor::new.
CursorBuffers == SeqsUpTo(CursorBytes, MaxCursorLen)

\* The predicates handed to Cursor::consume_while.
CursorPredicates == {{}, {"a"}, {" "}, {"a", " "}}

InitCursor ==
    /\ \E b \in CursorBuffers : parser = Cursor_new(b)
    /\ result = [op |-> "new", arg |-> 0, at |-> 0, out |-> None]
    /\ pc = "cursor"
    /\ state = Idle /\ priority = Idle /\ date_compound = Idle
    /\ text = Idle /\ builder = Idle /\ built = Idle /\ reparsed = Idle
    /\ desc = Idle /\ indexing = Idle /\ components = Idle /\ emitted = Idle
    /\ ord = Idle

\* What an operation of the cursor leaves unchanged.
CursorFrame ==
    UNCHANGED <<pc, state, priority, date_compound, text, builder, built,
                reparsed, desc, indexing, components, emitted, ord>>

\* Cursor::consume
CursorConsume ==
    /\ pc = "cursor"
    /\ parser' = consume(parser).p
    /\ result' = [op |-> "consume", arg |-> 0, at |-> parser.index,
                  out |-> consume(parser).out]
    /\ CursorFrame

\* Cursor::consume_n
CursorConsumeN ==
    /\ pc = "cursor"
    /\ \E n \in 0..MaxCount :
          /\ parser' = consume_n(parser, n).p
          /\ result' = [op |-> "consume_n", arg |-> n, at |-> parser.index,
                        out |-> consume_n(parser, n).out]
    /\ CursorFrame

\* Cursor::consume_while
CursorConsumeWhile ==
    /\ pc = "cursor"
    /\ \E predicate \in CursorPredicates :
          /\ parser' = consume_while(parser, predicate)
          /\ result' = [op |-> "consume_while", arg |-> predicate,
                        at |-> parser.index, out |-> None]
    /\ CursorFrame

\* Cursor::consume_whitespaces
CursorConsumeWhitespaces ==
    /\ pc = "cursor"
    /\ parser' = consume_whitespaces(parser)
    /\ result' = [op |-> "consume_whitespaces", arg |-> 0,
                  at |-> parser.index, out |-> None]
    /\ CursorFrame

\* Cursor::consume_non_whitespaces
CursorConsumeNonWhitespaces ==
    /\ pc = "cursor"
    /\ parser' = consume_non_whitespaces(parser)
    /\ result' = [op |-> "consume_non_whitespaces", arg |-> 0,
                  at |-> parser.index, out |-> None]
    /\ CursorFrame

\* Cursor::advance
CursorAdvance ==
    /\ pc = "cursor"
    /\ \E amount \in 0..MaxCount :
          /\ parser' = advance(parser, amount)
          /\ result' = [op |-> "advance", arg |-> amount, at |-> parser.index,
                        out |-> None]
    /\ CursorFrame

\* Cursor::first
CursorFirst ==
    /\ pc = "cursor"
    /\ result' = [op |-> "first", arg |-> 0, at |-> parser.index,
                  out |-> first(parser)]
    /\ UNCHANGED parser
    /\ CursorFrame

\* Cursor::second
CursorSecond ==
    /\ pc = "cursor"
    /\ result' = [op |-> "second", arg |-> 0, at |-> parser.index,
                  out |-> second(parser)]
    /\ UNCHANGED parser
    /\ CursorFrame

NextCursor ==
    \/ CursorConsume
    \/ CursorConsumeN
    \/ CursorConsumeWhile
    \/ CursorConsumeWhitespaces
    \/ CursorConsumeNonWhitespaces
    \/ CursorAdvance
    \/ CursorFirst
    \/ CursorSecond

SpecCursor == InitCursor /\ [][NextCursor]_vars

-----------------------------------------------------------------------------
(* SpecFromStr: the from_str of State, Date, DateCompound, Description and  *)
(* Task on a text.  text holds the text and result what from_str returned.  *)

\* The macro impl_fromstr!, given what <$ty>::parse returned on a parser
\* over the whole text: msg is the message of the error, if it has one.
impl_fromstr(r) ==
    IF r.out = None THEN [ok |-> FALSE, value |-> None, msg |-> None]
    ELSE IF is_eof(r.p) THEN [ok |-> TRUE, value |-> r.out, msg |-> None]
    ELSE [ok |-> FALSE, value |-> None,
          msg |-> Some("more tokens in input")]

\* The texts handed to from_str.
FromStrTexts ==
    SeqsUpTo({"x", "a", " ", "\n"}, MaxFromStrLen)
        \cup {Date1Text \o t : t \in SeqsUpTo({"x", "a", " ", "\n"}, 2)}
        \cup {Date1Text \o w \o Date2Text \o t :
                w \in {<<" ">>, <<"\t">>, <<"\n">>},
                t \in {<< >>, <<"x">>, <<" ">>, <<"\n">>, <<"\n", "a">>}}
        \cup {BadDateText, <<"x", " ">> \o Date1Text \o <<"\n", "a">>}

InitFromStr ==
    /\ text \in FromStrTexts
    /\ result = Idle
    /\ pc = "from_str"
    /\ parser = Idle /\ state = Idle /\ priority = Idle /\ date_compound = Idle
    /\ builder = Idle /\ built = Idle /\ reparsed = Idle
    /\ desc = Idle /\ indexing = Idle /\ components = Idle /\ emitted = Idle
    /\ ord = Idle

\* What a from_str leaves unchanged.
FromStrFrame ==
    /\ pc' = "returned"
    /\ UNCHANGED <<parser, state, priority, date_compound, text, builder,
                   built, reparsed, desc, indexing, components, emitted, ord>>

\* impl_fromstr!(State)
StateFromStr ==
    /\ pc = "from_str"
    /\ result' = [type |-> "State",
                  r |-> impl_fromstr(State_parse(Parser_new(text)))]
    /\ FromStrFrame

\* impl_fromstr!(Date)
DateFromStrText ==
    /\ pc = "from_str"
    /\ result' = [type |-> "Date",
                  r |-> impl_fromstr(Date_parse(Parser_new(text)))]
    /\ FromStrFrame

\* impl_fromstr!(DateCompound)
DateCompoundFromStr ==
    /\ pc = "from_str"
    /\ result' = [type |-> "DateCompound",
                  r |-> impl_fromstr(DateCompound_parse(Parser_new(text)))]
    /\ FromStrFrame

\* impl_fromstr!(Description)
DescriptionFromStr ==
    /\ pc = "from_str"
    /\ result' = [type |-> "Description",
                  r |-> impl_fromstr(Description_parse(Parser_new(text)))]
    /\ FromStrFrame

\* impl FromStr for Task: the error of Task::parse has no message.
TaskFromStr ==
    /\ pc = "from_str"
    /\ result' = [type |-> "Task",
                  r |-> [ok |-> Task_from_str(text) # None,
                         value |-> Task_from_str(text), msg |-> None]]
    /\ FromStrFrame

NextFromStr ==
    \/ StateFromStr
    \/ DateFromStrText
    \/ DateCompoundFromStr
    \/ DescriptionFromStr
    \/ TaskFromStr

SpecFromStr == InitFromStr /\ [][NextFromStr]_vars

-----------------------------------------------------------------------------
(* SpecSpan: a ByteSpan and the public operations that return a ByteSpan,   *)
(* in any order.  result holds the span.                                    *)

SpanPositions == 0..MaxPos

SpanOffsets == (0 - MaxPos)..MaxPos

\* The bounds of the ranges handed to ByteSpan::from_range.
SpanBounds ==
    {[kind |-> k, pos |-> p] : k \in {"Included", "Excluded"},
                               p \in SpanPositions}
        \cup {[kind |-> "Unbounded", pos |-> 0]}

\* The offsets are applied to spans of small positions only, which keeps the
\* spans of the model finitely many.
SpanSmall == result.low \in SpanPositions /\ result.high \in SpanPositions

\* ByteSpan::new
InitSpan ==
    /\ \E low \in SpanPositions, high \in SpanPositions :
          result = ByteSpan_new(low, high)
    /\ pc = "span"
    /\ parser = Idle /\ state = Idle /\ priority = Idle /\ date_compound = Idle
    /\ text = Idle /\ builder = Idle /\ built = Idle /\ reparsed = Idle
    /\ desc = Idle /\ indexing = Idle /\ components = Idle /\ emitted = Idle
    /\ ord = Idle

\* What an operation of ByteSpan leaves unchanged.
SpanFrame ==
    UNCHANGED <<pc, parser, state, priority, date_compound, text, builder,
                built, reparsed, desc, indexing, components, emitted, ord>>

\* ByteSpan::from_range
SpanFromRange ==
    /\ pc = "span"
    /\ \E start \in SpanBounds, end \in SpanBounds :
          result' = from_range(start, end)
    /\ SpanFrame

\* ByteSpan::with_low
SpanWithLow ==
    /\ pc = "span"
    /\ \E low \in SpanPositions : result' = with_low(result, low)
    /\ SpanFrame

\* ByteSpan::with_high
SpanWithHigh ==
    /\ pc = "span"
    /\ \E high \in SpanPositions : result' = with_high(result, high)
    /\ SpanFrame

\* ByteSpan::offset_low
SpanOffsetLow ==
    /\ pc = "span"
    /\ SpanSmall
    /\ \E offset \in SpanOffsets : result' = offset_low(result, offset)
    /\ SpanFrame

\* ByteSpan::offset_high
SpanOffsetHigh ==
    /\ pc = "span"
    /\ SpanSmall
    /\ \E offset \in SpanOffsets : result' = offset_high(result, offset)
    /\ SpanFrame

\* ByteSpan::offset
SpanOffset ==
    /\ pc = "span"
    /\ SpanSmall
    /\ \E offset \in SpanOffsets : result' = ByteSpan_offset(result, offset)
    /\ SpanFrame

\* ByteSpan::union
SpanUnion ==
    /\ pc = "span"
    /\ \E low \in SpanPositions, high \in SpanPositions :
          result' = union(result, ByteSpan_new(low, high))
    /\ SpanFrame

NextSpan ==
    \/ SpanFromRange
    \/ SpanWithLow
    \/ SpanWithHigh
    \/ SpanOffsetLow
    \/ SpanOffsetHigh
    \/ SpanOffset
    \/ SpanUnion

SpecSpan == InitSpan /\ [][NextSpan]_vars

-----------------------------------------------------------------------------
(* SpecTokens: Task::from_str, step by step as in Spec, on lines whose      *)
(* tokens and words stand in any order.                                     *)

\* A state marker, a priority, two dates and a word, each with what
\* Task::parse needs after it to commit it.
LineTokens ==
    {<<"x", " ">>, <<"(", "A", ")", " ", " ">>, Date1Text \o SP,
     Date2Text \o SP, <<"a", " ">>}

\* The lines handed to Task::from_str: tokens in any order, and a word.
TokenLines ==
    {join(ts, << >>) \o <<"a">> : ts \in SeqsUpTo(LineTokens, MaxTokens)}

InitTokens ==
    /\ \E line \in TokenLines : parser = Parser_new(line)
    /\ pc = "state"
    /\ state = Idle /\ priority = Idle /\ date_compound = Idle
    /\ result = Idle /\ text = Idle
    /\ builder = Idle /\ built = Idle /\ reparsed = Idle
    /\ desc = Idle /\ indexing = Idle /\ components = Idle /\ emitted = Idle
    /\ ord = Idle

SpecTokens == InitTokens /\ [][Next]_vars

-----------------------------------------------------------------------------
(* SpecLines: one Parser over a buffer of lines separated by "\n", and      *)
(* Task::parse called on it again and again until it returns Err.  text     *)
(* holds the lines of the buffer and emitted what the calls returned, in    *)
(* order.                                                                   *)

\* The lines of a buffer: none is empty and none holds a "\n".
BufferLines ==
    {<<"a">>, <<" ", "a">>, <<"a", " ">>, <<"x">>, <<"x", " ", "a">>,
     <<"(", "A", ")", " ", " ", "a">>, <<"(", "A", ")", " ">>,
     Date1Text, Date1Text \o SP \o <<"a">>,
     Date1Text \o SP \o Date2Text \o SP \o <<"a">>}

InitLines ==
    /\ \E ls \in SeqsUpTo(BufferLines, MaxLines) :
          /\ ls # << >>
          /\ text = ls
          /\ parser = Parser_new(join(ls, <<"\n">>))
    /\ emitted = << >>
    /\ pc = "task_parse"
    /\ state = Idle /\ priority = Idle /\ date_compound = Idle
    /\ result = Idle /\ builder = Idle /\ built = Idle /\ reparsed = Idle
    /\ desc = Idle /\ indexing = Idle /\ components = Idle /\ ord = Idle

\* Task::parse(&mut parser), called until it returns Err
TaskParse ==
    /\ pc = "task_parse"
    /\ LET r == Task_parse(parser)
       IN  /\ parser' = r.p
           /\ emitted' = Append(emitted, r.out)
           /\ pc' = IF r.out = None THEN "task_end" ELSE "task_parse"
    /\ UNCHANGED <<state, priority, date_compound, result, text, builder,
                   built, reparsed, desc, indexing, components, ord>>

NextLines == TaskParse

SpecLines == InitLines /\ [][NextLines]_vars

-----------------------------------------------------------------------------
(* SpecOrd: three Priority values and Ord::cmp on each pair of them.        *)

InitOrd ==
    /\ \E a \in Priority, b \in Priority, c \in Priority :
          ord = [a |-> a, b |-> b, c |-> c, ab |-> None, ba |-> None,
                 bc |-> None, ac |-> None]
    /\ pc = "compare"
    /\ parser = Idle /\ state = Idle /\ priority = Idle /\ date_compound = Idle
    /\ result = Idle /\ text = Idle
    /\ builder = Idle /\ built = Idle /\ reparsed = Idle
    /\ desc = Idle /\ indexing = Idle /\ components = Idle /\ emitted = Idle

\* a.cmp(&b), b.cmp(&a), b.cmp(&c) and a.cmp(&c)
Compare ==
    /\ pc = "compare"
    /\ ord' = [ord EXCEPT !.ab = Some(Priority_cmp(ord.a, ord.b)),
                          !.ba = Some(Priority_cmp(ord.b, ord.a)),
                          !.bc = Some(Priority_cmp(ord.b, ord.c)),
                          !.ac = Some(Priority_cmp(ord.a, ord.c))]
    /\ pc' = "compared"
    /\ UNCHANGED <<parser, state, priority, date_compound, result, text,
                   builder, built, reparsed, desc, indexing, components,
                   emitted>>

NextOrd == Compare

SpecOrd == InitOrd /\ [][NextOrd]_vars

-----------------------------------------------------------------------------
(* What the claims are stated with. *)

Range(s) == {s[i] : i \in 1..Len(s)}

\* The line handed to Task::from_str.
Line == parser.bytes

\* The Task that Task::from_str returned.
Parsed == result.task[1]

Date1 == [year |-> 2000, month |-> 1, day |-> 1]

Date2 == [year |-> 1970, month |-> 12, day |-> 31]

\* The valid dates of the lines, as written and as the Date they stand for.
WrittenDates ==
    {[text |-> Date1Text, date |-> Date1], [text |-> Date2Text, date |-> Date2]}

\* A valid date of the lines as it is written.
Written(date) == (CHOOSE w \in WrittenDates : w.date = date).text

StartsWith(s, prefix) ==
    Len(s) >= Len(prefix) /\ SubSeq(s, 1, Len(prefix)) = prefix

After(s, prefix) == SubSeq(s, Len(prefix) + 1, Len(s))

\* The bytes of s before its first "\n", all of s if it has none.
UpToNewline(s) ==
    IF "\n" \in Range(s)
    THEN SubSeq(s, 1, (CHOOSE i \in 1..Len(s) :
                          s[i] = "\n" /\ \A j \in 1..(i - 1) : s[j] # "\n") - 1)
    ELSE s

-----------------------------------------------------------------------------
(* C1 *)

\* C1: for every uppercase letter P, valid dates d1 and d2 and non-empty
\* description text D without "\n", Task::from_str on the line
\* "x (P) d1 d2 D" returns a Task with state Done, priority P, date compound
\* Completed{created: d2, completed: d1} and description text D.
C1_FullLine ==
    pc = "done" =>
        \A P \in UpperBytes, d1 \in WrittenDates, d2 \in WrittenDates :
            LET prefix == <<"x", " ", "(", P, ")", " ">> \o d1.text \o SP
                              \o d2.text \o SP
                D == After(Line, prefix)
            IN  (StartsWith(Line, prefix) /\ D # << >> /\ "\n" \notin Range(D))
                => /\ result.ok
                   /\ Parsed.state = "Done"
                   /\ Parsed.priority = Some(P)
                   /\ Parsed.date_compound = Some(Completed(d2.date, d1.date))
                   /\ Parsed.description.raw = D

-----------------------------------------------------------------------------
(* C2 *)

\* The Task that TaskBuilder::build returned.
Built == built[1]

\* C2: a Task built by the builder, with any state, any optional priority, any
\* optional date compound and a description without "\n" that begins with a
\* plain letter, is formatted to a text that Task::from_str parses to Ok of an
\* equal Task.
C2_BuilderRoundTrip ==
    (/\ pc = "reparsed"
     /\ StartsWith(Built.description.raw, <<"a">>))
    => reparsed[1] = Some(Built)

-----------------------------------------------------------------------------
(* C3 *)

\* C3: a line without "\n" and without ASCII whitespace other than the space,
\* once parsed, formats back to itself byte for byte.
C3_FormatReproducesLine ==
    (pc = "formatted" /\ Range(Line) \cap (AsciiWhitespace \ {" "}) = {})
    => text = Some(Line)

-----------------------------------------------------------------------------
(* C4 *)

\* X comes before Y in the alphabet.
Alphabetically(X, Y) ==
    \E i \in 1..26, j \in 1..26 :
        i < j /\ PriorityVariants[i] = X /\ PriorityVariants[j] = Y

\* C4: Priority X is greater than Priority Y iff X comes before Y in the
\* alphabet and equal to it iff X = Y; the order is antisymmetric and
\* transitive; A is greater than every other Priority and Z less than every
\* other.
C4_PriorityOrder ==
    pc = "compared" =>
        /\ ord.ab[1] \in {"Less", "Equal", "Greater"}
        /\ ord.ab[1] = "Greater" <=> Alphabetically(ord.a, ord.b)
        /\ ord.ab[1] = "Less" <=> Alphabetically(ord.b, ord.a)
        /\ ord.ab[1] = "Equal" <=> ord.a = ord.b
        /\ ord.ab[1] = "Greater" <=> ord.ba[1] = "Less"
        /\ (ord.ab[1] = "Greater" /\ ord.bc[1] = "Greater")
              => ord.ac[1] = "Greater"
        /\ (ord.a = "A" /\ ord.b # "A") => ord.ab[1] = "Greater"
        /\ (ord.a = "Z" /\ ord.b # "Z") => ord.ab[1] = "Less"

\* C4's case: A has been compared with Z and Z with a letter between them.
C4_Witness ==
    /\ pc = "compared"
    /\ ord.a = "A" /\ ord.b = "Z" /\ ord.c = "M"
    /\ ord.ab = Some("Greater") /\ ord.bc = Some("Less")

-----------------------------------------------------------------------------
(* C5 *)

\* C5: when Task::from_str succeeds, the state is Done iff the line starts with
\* "x" followed by an ASCII whitespace byte; any other line starting with "x"
\* gives Open and keeps the "x" in the description; and an Open task is
\* formatted without a state token and without a leading separator.
C5_DefaultState ==
    /\ (pc = "done" /\ result.ok) =>
          /\ Parsed.state = "Done" <=>
                (Len(Line) >= 2 /\ Line[1] = "x" /\ Line[2] \in AsciiWhitespace)
          /\ (Parsed.state # "Done" /\ Line[1] = "x") =>
                /\ Parsed.state = "Open"
                /\ Parsed.description.raw = UpToNewline(Line)
    /\ (pc = "formatted" /\ Parsed.state = "Open") =>
          text[1] =
              (IF Parsed.priority # None
               THEN <<"(", Parsed.priority[1], ")", " ">> ELSE << >>)
              \o (IF Parsed.date_compound = None THEN << >>
                  ELSE IF Parsed.date_compound[1].variant = "Created"
                  THEN Written(Parsed.date_compound[1].created) \o SP
                  ELSE Written(Parsed.date_compound[1].completed) \o SP
                           \o Written(Parsed.date_compound[1].created) \o SP)
              \o Parsed.description.raw

\* C5's case: a line whose first word only starts with "x" has been parsed
\* and formatted.
C5_Witness ==
    /\ pc = "formatted"
    /\ StartsWith(Line, <<"x", "a">>)
    /\ Parsed.state = "Open"

-----------------------------------------------------------------------------
(* C6 *)

\* The text a Component stands for.
ComponentText(item) ==
    IF item.kind = "Custom" THEN item.key \o item.separator \o item.value
    ELSE item.text

RECURSIVE Concat(_)
Concat(items) ==
    IF items = << >> THEN << >>
    ELSE ComponentText(Head(items)) \o Concat(Tail(items))

\* C6: the components yielded so far, concatenated in order, are the raw text
\* up to where the iterator stands, so that they cover it without gap or
\* overlap; none of them is empty; and once the iterator is exhausted they
\* are the whole raw text.
C6_ComponentsCover ==
    pc \in {"components", "done"} =>
        /\ Concat(emitted) = SubSeq(desc.raw, 1, Len(Concat(emitted)))
        /\ Len(Concat(emitted)) = components.byte_idx
        /\ \A i \in 1..Len(emitted) : ComponentText(emitted[i]) # << >>
        /\ pc = "done" => Concat(emitted) = desc.raw

\* C6's case: the iterator is exhausted after a custom tag and a text.
C6_Witness ==
    /\ pc = "done"
    /\ \E i \in 1..Len(emitted) : emitted[i].kind = "Custom"
    /\ \E i \in 1..Len(emitted) : emitted[i].kind = "Text"

-----------------------------------------------------------------------------
(* C7 *)

\* The words of s: its maximal runs of bytes that are not ASCII whitespace,
\* each as the span [low, high) of its byte offsets.
WordSpans(s) ==
    {w \in [low : 0..Len(s), high : 0..Len(s)] :
        /\ w.low < w.high
        /\ \A i \in (w.low + 1)..w.high : s[i] \notin AsciiWhitespace
        /\ (w.low = 0 \/ s[w.low] \in AsciiWhitespace)
        /\ (w.high = Len(s) \/ s[w.high + 1] \in AsciiWhitespace)}

\* The bytes of s in the span w.
WordText(s, w) == SubSeq(s, w.low + 1, w.high)

\* Every range recorded so far, with the list it is in and its place there.
Recorded ==
    {[list |-> "projects", i |-> i, full |-> indexing.projects[i].full] :
        i \in 1..Len(indexing.projects)}
    \cup {[list |-> "contexts", i |-> i, full |-> indexing.contexts[i].full] :
            i \in 1..Len(indexing.contexts)}
    \cup {[list |-> "custom", i |-> i, full |-> indexing.custom[i].full] :
            i \in 1..Len(indexing.custom)}

\* C7: at every point of Description::index, each of the three lists is
\* strictly increasing in position, no two recorded ranges overlap, every
\* full span is one whole word, and no word has two ranges; and the three
\* iterators yield the ranges in the order of their lists.
C7_RangeLists ==
    pc \in {"index", "components", "done"} =>
        /\ \A r \in Recorded, q \in Recorded :
              /\ (r.list = q.list /\ r.i < q.i) => r.full.high <= q.full.low
              /\ r # q => (\/ r.full.high <= q.full.low
                           \/ q.full.high <= r.full.low)
        /\ \A r \in Recorded : r.full \in WordSpans(desc.raw)
        /\ \A w \in WordSpans(desc.raw) :
              Cardinality({r \in Recorded : r.full = w}) <= 1
        /\ pc # "index" =>
              /\ projects(desc)
                    = [i \in 1..Len(indexing.projects) |->
                          SubSeq(desc.raw, indexing.projects[i].full.low + 2,
                                 indexing.projects[i].full.high)]
              /\ contexts(desc)
                    = [i \in 1..Len(indexing.contexts) |->
                          SubSeq(desc.raw, indexing.contexts[i].full.low + 2,
                                 indexing.contexts[i].full.high)]
              /\ Len(custom(desc)) = Len(indexing.custom)
              /\ \A i \in 1..Len(indexing.custom) :
                    custom(desc)[i][1] \o <<":">> \o custom(desc)[i][2]
                        = WordText(desc.raw, indexing.custom[i].full)

\* C7's case: the index of a text of two projects is built.
C7_Witness ==
    /\ pc = "components"
    /\ Len(indexing.projects) = 2

-----------------------------------------------------------------------------
(* C8 *)

\* A word of at least two bytes that starts with the sigil.
Sigiled(word, sigil) == Len(word) >= 2 /\ word[1] = sigil

\* The places of the colons of a word.
Colons(word) == {i \in 1..Len(word) : word[i] = ":"}

\* A word with exactly one colon, neither its first nor its last byte.
KeyValueWord(word) ==
    /\ Cardinality(Colons(word)) = 1
    /\ word[1] # ":"
    /\ word[Len(word)] # ":"

\* C8: once the index is built, a word that is neither project nor context
\* has a custom range iff it has exactly one colon, neither first nor last;
\* the range then has the bytes before the colon as key, the colon as
\* separator, the bytes after it as value and the whole word as full span;
\* and every custom range is the range of such a word.
C8_CustomTagRule ==
    pc \in {"components", "done"} =>
        /\ \A w \in WordSpans(desc.raw) :
              LET word == WordText(desc.raw, w)
              IN  (~Sigiled(word, "+") /\ ~Sigiled(word, "@")) =>
                      IF KeyValueWord(word)
                      THEN \E i \in 1..Len(desc.custom) :
                              LET colon == w.low + (CHOOSE k \in Colons(word) : TRUE)
                              IN  /\ desc.custom[i].full = w
                                  /\ desc.custom[i].key
                                        = [low |-> w.low, high |-> colon - 1]
                                  /\ desc.custom[i].separator
                                        = [low |-> colon - 1, high |-> colon]
                                  /\ desc.custom[i].value
                                        = [low |-> colon, high |-> w.high]
                      ELSE \A i \in 1..Len(desc.custom) :
                              desc.custom[i].full # w
        /\ \A i \in 1..Len(desc.custom) :
              /\ desc.custom[i].full \in WordSpans(desc.raw)
              /\ KeyValueWord(WordText(desc.raw, desc.custom[i].full))

\* C8's case: the index is built of a text with a custom tag and with a word
\* that has a colon and is no custom tag.
C8_Witness ==
    /\ pc = "components"
    /\ Len(desc.custom) = 1
    /\ \E w \in WordSpans(desc.raw) :
          /\ Colons(WordText(desc.raw, w)) # {}
          /\ desc.custom[1].full # w

-----------------------------------------------------------------------------
(* C9 *)

\* The full spans of a list of ranges.
FullSpans(ranges) == {ranges[i].full : i \in 1..Len(ranges)}

\* C9: once the index is built, a word of at least two bytes starting with
\* '+' is a project and one starting with '@' a context, whose name is the
\* word without its first byte, and neither is a custom tag whatever colons
\* it has; a word of one byte has no range; and a word that does not start
\* with '+' (with '@') is no project (no context) and holds none.
C9_Classification ==
    pc \in {"components", "done"} =>
        /\ \A w \in WordSpans(desc.raw) :
              LET word == WordText(desc.raw, w)
              IN  /\ Sigiled(word, "+") <=> w \in FullSpans(desc.projects)
                  /\ Sigiled(word, "@") <=> w \in FullSpans(desc.contexts)
                  /\ (Sigiled(word, "+") \/ Sigiled(word, "@"))
                        => w \notin FullSpans(desc.custom)
                  /\ Len(word) = 1 =>
                        w \notin FullSpans(desc.projects)
                                    \cup FullSpans(desc.contexts)
                                    \cup FullSpans(desc.custom)
        /\ FullSpans(desc.projects) \cup FullSpans(desc.contexts)
              \subseteq WordSpans(desc.raw)
        /\ \A i \in 1..Len(desc.projects) :
              desc.projects[i].name
                  = [low |-> desc.projects[i].full.low + 1,
                     high |-> desc.projects[i].full.high]
        /\ \A i \in 1..Len(desc.contexts) :
              desc.contexts[i].name
                  = [low |-> desc.contexts[i].full.low + 1,
                     high |-> desc.contexts[i].full.high]

\* C9's case: the index is built of the text "+a:a", which has a project and
\* no custom tag.
C9_Witness ==
    /\ pc = "components"
    /\ desc.raw = <<"+", "a", ":", "a">>
    /\ Len(desc.projects) = 1
    /\ desc.custom = << >>

-----------------------------------------------------------------------------
(* C10 *)

\* C10: "d1 d2 D" with D non-empty gives Completed{created: d2, completed: d1}
\* whatever the order of the two dates in time, and "d1 D" with D non-empty
\* and not starting with a date gives Created{created: d1}.
C10_DateCompound ==
    pc = "done" =>
        \A d1 \in WrittenDates :
            /\ \A d2 \in WrittenDates :
                  LET prefix == d1.text \o SP \o d2.text \o SP
                  IN  (StartsWith(Line, prefix) /\ After(Line, prefix) # << >>)
                      => /\ result.ok
                         /\ Parsed.date_compound
                                = Some(Completed(d2.date, d1.date))
            /\ LET prefix == d1.text \o SP
                   D == After(Line, prefix)
               IN  (/\ StartsWith(Line, prefix)
                    /\ D # << >>
                    /\ ~(Len(D) >= 10 /\ Date_parse(Parser_new(D)).out # None))
                   => /\ result.ok
                      /\ Parsed.date_compound = Some(Created(d1.date))

\* C10's case: a line of two dates, the first the earlier one, and a
\* description has been parsed.
C10_Witness ==
    /\ pc = "done"
    /\ StartsWith(Line, Date2Text \o SP \o Date1Text \o SP \o <<"a">>)
    /\ result.ok
    /\ Parsed.date_compound = Some(Completed(Date1, Date2))

-----------------------------------------------------------------------------
(* C11 *)

\* The line starts with '(' and not with '(', one uppercase letter, ')' and
\* an ASCII whitespace byte.
MalformedPriority ==
    /\ Line # << >>
    /\ Line[1] = "("
    /\ ~(/\ Len(Line) >= 4
         /\ Line[2] \in UpperBytes
         /\ Line[3] = ")"
         /\ Line[4] \in AsciiWhitespace)

\* The ranges of the description that start at the first byte of the line.
RangesOfFirstWord(ranges) ==
    {i \in 1..Len(ranges) : ranges[i].full.low = 0}

\* The first word of the line.
FirstWord ==
    WordText(Line, CHOOSE w \in WordSpans(Line) : w.low = 0)

\* C11 as the claim has it: a line with a malformed priority token parses
\* without a priority, its description is the whole line, and the
\* parenthesised word has no project, context or custom range.
C11_MalformedPriority_NoRange ==
    (pc = "done" /\ MalformedPriority) =>
        /\ result.ok
        /\ Parsed.priority = None
        /\ Parsed.description.raw = UpToNewline(Line)
        /\ RangesOfFirstWord(Parsed.description.projects) = {}
        /\ RangesOfFirstWord(Parsed.description.contexts) = {}
        /\ RangesOfFirstWord(Parsed.description.custom) = {}

\* C11, amended: a line with a malformed priority token parses without a
\* priority, its description is the whole line (up to its first "\n"), and
\* the parenthesised word has no project and no context range; it has a
\* custom range iff it holds exactly one ':', neither its first nor its last
\* byte, as "(:)" does.
C11_MalformedPriority ==
    (pc = "done" /\ MalformedPriority) =>
        /\ result.ok
        /\ Parsed.priority = None
        /\ Parsed.description.raw = UpToNewline(Line)
        /\ RangesOfFirstWord(Parsed.description.projects) = {}
        /\ RangesOfFirstWord(Parsed.description.contexts) = {}
        /\ RangesOfFirstWord(Parsed.description.custom) # {}
              <=> KeyValueWord(FirstWord)

\* C11's case: the line "(1) a" is parsed.
C11_Witness ==
    /\ pc = "done"
    /\ Line = <<"(", "1", ")", " ", "a">>
    /\ Parsed.priority = None
    /\ Parsed.description.raw = Line

-----------------------------------------------------------------------------
(* C12 *)

\* C12: Task::from_str never returns Ok of a Task whose description text is
\* empty.
C12_NoEmptyDescription ==
    (pc = "done" /\ result.ok) => Parsed.description.raw # << >>

-----------------------------------------------------------------------------
(* C13 *)

\* C13: the step of Task::parse that reads the description, which comes once
\* the optional tokens are committed, ends in Err iff no byte remains at the
\* cursor; and a non-empty line on which no optional token was committed
\* parses to Ok.
C13_OnlyDescriptionFails ==
    [][pc = "description" =>
          /\ result'.ok <=> parser.index < Len(parser.bytes)
          /\ (/\ Line # << >>
              /\ state = Some("Open")
              /\ priority = Some(None)
              /\ date_compound = Some(None)) => result'.ok]_vars

\* C13's case: the line "x " has been parsed, the state token committed and
\* Err returned.
C13_Witness ==
    /\ pc = "done"
    /\ Line = <<"x", " ">>
    /\ state = Some("Done")
    /\ ~result.ok

-----------------------------------------------------------------------------
(* C15 *)

\* The dates of the builder, as written and as the Date they stand for.
BuilderWrittenDates ==
    WrittenDates
        \cup {[text |-> <<"0", "0", "0", "5", "-", "0", "2", "-", "3", "0">>,
               date |-> [year |-> 5, month |-> 2, day |-> 30]]}

\* A date of the builder as it is written.
BuilderWritten(date) == (CHOOSE w \in BuilderWrittenDates : w.date = date).text

\* The fields of the Task built that are present, each as it is written, in
\* the order state, priority, date compound, description.
PresentFields ==
    (IF Built.state = "Done" THEN << <<"x">> >> ELSE << >>)
    \o (IF Built.priority # None
        THEN << <<"(", Built.priority[1], ")">> >> ELSE << >>)
    \o (IF Built.date_compound = None THEN << >>
        ELSE IF Built.date_compound[1].variant = "Created"
        THEN << BuilderWritten(Built.date_compound[1].created) >>
        ELSE << BuilderWritten(Built.date_compound[1].completed) \o SP
                   \o BuilderWritten(Built.date_compound[1].created) >>)
    \o << Built.description.raw >>

\* The fields, each but the last followed by one space.
RECURSIVE Spaced(_)
Spaced(fields) ==
    IF Len(fields) = 1 THEN fields[1]
    ELSE fields[1] \o SP \o Spaced(Tail(fields))

\* C15: the text of a Task is its present fields in the order state,
\* priority, date compound, description, with one space between consecutive
\* fields; and it has no separator at its start or at its end: a space that
\* starts or ends the text is a byte of the description.
C15_DisplayFields ==
    pc \in {"formatted", "reparsed"} =>
        /\ text[1] = Spaced(PresentFields)
        /\ (text[1] # << >> /\ text[1][1] = " ") =>
              /\ Len(PresentFields) = 1
              /\ Built.description.raw[1] = " "
        /\ (text[1] # << >> /\ text[1][Len(text[1])] = " ") =>
              /\ Built.description.raw # << >>
              /\ Built.description.raw[Len(Built.description.raw)] = " "

-----------------------------------------------------------------------------
(* C14 *)

-----------------------------------------------------------------------------
(* C16 *)

\* C16: a setter call gives its own field a value and leaves the other two
\* fields as they are; build leaves the builder as it is and returns the Task
\* of the builder's fields, with State::Open for a state never set and an
\* absent priority or date compound when never set, and of Description::new
\* of its argument; and a build call that follows a build call with the same
\* description returns an equal Task.
C16_Builder ==
    [][/\ (pc = "builder" /\ pc' = "builder") =>
             \/ /\ builder'.state \in {Some("Open"), Some("Done")}
                /\ builder'.priority = builder.priority
                /\ builder'.date_compound = builder.date_compound
             \/ /\ builder'.priority \in {Some(p) : p \in Priority}
                /\ builder'.state = builder.state
                /\ builder'.date_compound = builder.date_compound
             \/ /\ builder'.date_compound
                      \in {Some(dc) : dc \in BuilderDateCompounds}
                /\ builder'.state = builder.state
                /\ builder'.priority = builder.priority
       /\ pc' = "built" =>
             /\ builder' = builder
             /\ built'[1].state
                   = (IF builder.state = None THEN "Open" ELSE builder.state[1])
             /\ built'[1].priority = builder.priority
             /\ built'[1].date_compound = builder.date_compound
             /\ built'[1].description.raw \in BuildDescs
             /\ built'[1].description
                   = Description_new(built'[1].description.raw)
             /\ (/\ pc = "built"
                 /\ built'[1].description.raw = built[1].description.raw)
                   => built' = built]_vars

\* C16's case: build has returned a Task from a builder whose priority and
\* date compound were set and whose state never was.
C16_Witness ==
    /\ pc = "built"
    /\ builder.state = None
    /\ builder.priority = Some("B")
    /\ builder.date_compound # None
    /\ built[1].state = "Open"
    /\ built[1].priority = Some("B")

-----------------------------------------------------------------------------
(* C17 *)

\* The number a run of ASCII digits stands for.
RECURSIVE Number(_)
Number(digits) ==
    IF digits = << >> THEN 0
    ELSE (10 * Number(SubSeq(digits, 1, Len(digits) - 1)))
            + (CHOOSE n \in 0..9 : Digits[n + 1] = digits[Len(digits)])

\* The first ten bytes of s have the form DDDD-DD-DD, with a month in 1..12
\* and a day in 1..31.
DateForm(s) ==
    /\ Len(s) >= 10
    /\ \A i \in {1, 2, 3, 4, 6, 7, 9, 10} : s[i] \in DigitBytes
    /\ s[5] = "-"
    /\ s[8] = "-"
    /\ Number(SubSeq(s, 6, 7)) \in 1..12
    /\ Number(SubSeq(s, 9, 10)) \in 1..31

\* C17: Date::parse returns Ok iff the next ten bytes have the form
\* DDDD-DD-DD with a month in 1..12 and a day in 1..31, whatever the
\* calendar says of the day; the Date is then the one the digits stand for
\* and exactly those ten bytes are consumed.
C17_DateParse ==
    pc = "date_parsed" =>
        /\ result # None <=> DateForm(parser.bytes)
        /\ result # None =>
              /\ parser.index = 10
              /\ result[1] = [year |-> Number(SubSeq(parser.bytes, 1, 4)),
                              month |-> Number(SubSeq(parser.bytes, 6, 7)),
                              day |-> Number(SubSeq(parser.bytes, 9, 10))]

\* C17's case: Date::parse has returned the 30th of February from
\* "2021-02-30" followed by a byte.
C17_Witness ==
    /\ pc = "date_parsed"
    /\ parser.bytes = <<"2", "0", "2", "1", "-", "0", "2", "-", "3", "0", "x">>
    /\ result = Some([year |-> 2021, month |-> 2, day |-> 30])

-----------------------------------------------------------------------------
(* C18 *)

\* C18: every Date that Date::from_ymd_opt returns is written as ten bytes,
\* four digits, a dash, two digits, a dash and two digits, and
\* Date::from_str of that text returns the same Date.
C18_DateRoundTrip ==
    /\ pc \in {"date_formatted", "date_reparsed"} =>
          /\ Len(text[1]) = 10
          /\ \A i \in {1, 2, 3, 4, 6, 7, 9, 10} : text[1][i] \in DigitBytes
          /\ text[1][5] = "-"
          /\ text[1][8] = "-"
    /\ pc = "date_reparsed" => reparsed = built.date

-----------------------------------------------------------------------------
(* C19 *)

\* What a step of Task::parse that tries an optional token does to the
\* cursor: if the token is committed, the cursor has passed the length bytes
\* of the token and then one ASCII whitespace byte, or the token alone up to
\* the end of the input; if not, the parser is as it was.
TokenStep(committed, length) ==
    IF committed
    THEN \/ /\ parser'.index = parser.index + length
            /\ parser'.index = Len(parser.bytes)
         \/ /\ parser'.index = parser.index + length + 1
            /\ parser.bytes[parser.index + length + 1] \in AsciiWhitespace
    ELSE parser' = parser

\* C19: each of the three steps of Task::parse that try an optional token
\* either leaves the field absent and the cursor where it was, or commits the
\* token, "x", "(P)", one date or two dates with a byte between, and leaves
\* the cursor after the token and exactly one whitespace byte, or at the end
\* of the input.
C19_Rollback ==
    [][/\ pc = "state" => TokenStep(state' = Some("Done"), 1)
       /\ pc = "priority" => TokenStep(priority' # Some(None), 3)
       /\ pc = "date_compound" =>
             TokenStep(date_compound' # Some(None),
                       IF date_compound' # Some(None)
                          /\ date_compound'[1][1].variant = "Completed"
                       THEN 21 ELSE 10)]_vars

-----------------------------------------------------------------------------
(* C20 *)

\* The Date that ten bytes of the form DDDD-DD-DD stand for.
DateOf(s) ==
    [year |-> Number(SubSeq(s, 1, 4)), month |-> Number(SubSeq(s, 6, 7)),
     day |-> Number(SubSeq(s, 9, 10))]

\* After the first date of s stand one ASCII whitespace byte, a second date,
\* and then nothing or an ASCII whitespace byte.
SecondDate(s) ==
    /\ Len(s) >= 21
    /\ s[11] \in AsciiWhitespace
    /\ DateForm(SubSeq(s, 12, 21))
    /\ Len(s) > 21 => s[22] \in AsciiWhitespace

\* C20: on a text that starts with a date, DateCompound::parse returns
\* Completed, the second date being the creation date, and leaves the cursor
\* after the second date, iff exactly one ASCII whitespace byte and a second
\* date follow and the second date is followed by nothing or by an ASCII
\* whitespace byte; otherwise it returns Created with the first date and
\* leaves the cursor right after the first date.
C20_DateCompoundLookahead ==
    (pc = "date_compound_parsed" /\ DateForm(parser.bytes)) =>
        IF SecondDate(parser.bytes)
        THEN /\ result = Some(Completed(DateOf(SubSeq(parser.bytes, 12, 21)),
                                        DateOf(parser.bytes)))
             /\ parser.index = 21
        ELSE /\ result = Some(Created(DateOf(parser.bytes)))
             /\ parser.index = 10

\* C20's case: DateCompound::parse has returned Created from two dates
\* followed by a letter, the cursor right after the first date.
C20_Witness ==
    /\ pc = "date_compound_parsed"
    /\ parser.bytes = Date1Text \o SP \o Date2Text \o <<"x">>
    /\ result = Some(Created(DateOf(Date1Text)))
    /\ parser.index = 10

-----------------------------------------------------------------------------
(* C21 *)

\* The bytes of the line from the cursor on.
Rest(p) == SubSeq(p.bytes, p.index + 1, Len(p.bytes))

\* C21: when the description step of Task::parse succeeds, the description
\* text is the bytes of the line from the cursor the optional tokens left up
\* to the first "\n" from there on, or to the end of the input, with no byte
\* dropped at either end; and the cursor is left right after that "\n", or
\* at the end of the input.
C21_DescriptionText ==
    [][(pc = "description" /\ result'.ok) =>
          LET d == result'.task[1].description.raw
          IN  /\ d = UpToNewline(Rest(parser))
              /\ "\n" \notin Range(d)
              /\ parser'.bytes = parser.bytes
              /\ parser'.index =
                    IF Len(d) < Len(Rest(parser))
                    THEN parser.index + Len(d) + 1
                    ELSE Len(parser.bytes)]_vars

\* C21's case: from the line "x  \na", Task::from_str has returned a done
\* Task whose description is one space, the cursor right after the "\n" and
\* one byte before the end of the input.
C21_Witness ==
    /\ pc = "done"
    /\ result.ok
    /\ Line = <<"x", " ", " ", "\n", "a">>
    /\ Parsed.state = "Done"
    /\ Parsed.description.raw = <<" ">>
    /\ parser.index = 4

-----------------------------------------------------------------------------
(* C22 *)

\* C22: when the repeated Task::parse calls on a buffer of non-empty lines
\* separated by "\n" have ended, they have returned one Task for each line,
\* in the order of the lines, each the Task of its own line alone, and then
\* Err.
C22_OneTaskPerLine ==
    pc = "task_end" =>
        /\ Len(emitted) = Len(text) + 1
        /\ \A i \in 1..Len(text) :
              /\ emitted[i] # None
              /\ emitted[i] = Task_from_str(text[i])
              /\ \E k \in 0..Len(text[i]) :
                    emitted[i][1].description.raw =
                        SubSeq(text[i], k + 1, Len(text[i]))
        /\ emitted[Len(emitted)] = None

-----------------------------------------------------------------------------
(* C23 *)

\* The texts a field of the Task t can have been parsed from: nothing if the
\* field is absent, and the token with the whitespace Task::parse consumed
\* after it if it is present.
StateToken(t) == IF t.state = "Done" THEN {<<"x", " ">>} ELSE {<< >>}

PriorityToken(t) ==
    IF t.priority = None THEN {<< >>}
    ELSE {<<"(", t.priority[1], ")">> \o w : w \in {<<" ">>, <<" ", " ">>}}

DateCompoundToken(t) ==
    IF t.date_compound = None THEN {<< >>}
    ELSE IF t.date_compound[1].variant = "Created"
    THEN {Written(t.date_compound[1].created) \o SP}
    ELSE {Written(t.date_compound[1].completed) \o SP
             \o Written(t.date_compound[1].created) \o SP}

\* C23: the fields of the Task that Task::from_str returns come from the
\* start of the line only and in the order state, priority, dates: the line
\* is the state marker if the Task is done, then the priority if the Task
\* has one, then the dates if the Task has any, and then the description,
\* which so holds, as written, every token that stands after a word or out of
\* that order.
C23_TokenOrder ==
    (pc = "done" /\ result.ok) =>
        \E s \in StateToken(Parsed), p \in PriorityToken(Parsed),
           d \in DateCompoundToken(Parsed) :
            Line = s \o p \o d \o Parsed.description.raw

\* C23's case: from a line with a date before a priority, Task::from_str has
\* returned a Task with the date and no priority, the priority in its
\* description.
C23_Witness ==
    /\ pc = "done"
    /\ result.ok
    /\ Line = Date1Text \o <<" ", "(", "A", ")", " ", " ", "a">>
    /\ Parsed.priority = None
    /\ Parsed.date_compound = Some(Created(Date1))
    /\ Parsed.description.raw = <<"(", "A", ")", " ", " ", "a">>

-----------------------------------------------------------------------------
(* C24 *)

\* The span lies in a text of n bytes.
InBounds(span, n) == 0 <= span.low /\ span.low <= span.high /\ span.high <= n

\* The range r of a project or of a context lies in the text s, its full
\* span starts at the byte sigil, and its name span is the full span without
\* that byte and is not empty.
SigilRange(r, s, sigil) ==
    /\ InBounds(r.full, Len(s))
    /\ InBounds(r.name, Len(s))
    /\ s[r.full.low + 1] = sigil
    /\ r.name = [low |-> r.full.low + 1, high |-> r.full.high]
    /\ r.name.low < r.name.high

\* C24: every span that Description::index records over a text of n bytes,
\* the full and name spans of projects and contexts and the full, key,
\* separator and value spans of custom tags, satisfies
\* 0 <= low <= high <= n; a project's full span starts at a "+" and a
\* context's at an "@"; and the name span is the full span without its first
\* byte and is not empty.
C24_SpansInBounds ==
    pc \in {"index", "components", "done"} =>
        /\ \A i \in 1..Len(indexing.projects) :
              SigilRange(indexing.projects[i], desc.raw, "+")
        /\ \A i \in 1..Len(indexing.contexts) :
              SigilRange(indexing.contexts[i], desc.raw, "@")
        /\ \A i \in 1..Len(indexing.custom) :
              /\ InBounds(indexing.custom[i].full, Len(desc.raw))
              /\ InBounds(indexing.custom[i].key, Len(desc.raw))
              /\ InBounds(indexing.custom[i].separator, Len(desc.raw))
              /\ InBounds(indexing.custom[i].value, Len(desc.raw))

\* C24's case: Description::new has returned the Description of a text with
\* a project and a context, the context ending at the end of the text.
C24_Witness ==
    /\ pc = "components"
    /\ Len(desc.projects) = 1
    /\ Len(desc.contexts) = 1
    /\ desc.contexts[1].full.high = Len(desc.raw)

-----------------------------------------------------------------------------
(* C25 *)

\* The byte of the buffer at the 0-based offset i, none if the buffer has no
\* such byte.
ByteAt(bytes, i) == IF i < Len(bytes) THEN Some(bytes[i + 1]) ELSE None

\* C25: after every operation of a Cursor over a buffer of n bytes the index
\* is in 0..n and not less than it was before the operation; first and second
\* return the byte at the index and the byte after it, and none where the
\* buffer has no such byte.
C25_CursorInvariant ==
    pc = "cursor" =>
        /\ 0 <= parser.index
        /\ parser.index <= Len(parser.bytes)
        /\ result.at <= parser.index
        /\ result.op = "first" => result.out = ByteAt(parser.bytes, result.at)
        /\ result.op = "second" =>
              result.out = ByteAt(parser.bytes, result.at + 1)

\* C25's case: advance was called with an amount that leads past the end of
\* the buffer, and the cursor is at the end.
C25_Witness ==
    /\ pc = "cursor"
    /\ result.op = "advance"
    /\ result.at + result.arg > Len(parser.bytes)
    /\ result.at < Len(parser.bytes)
    /\ parser.index = Len(parser.bytes)

-----------------------------------------------------------------------------
(* C29 *)

\* C29: Cursor::consume_n(n), called at an index with at least n bytes after
\* it, exactly n included, returns those n bytes and leaves the index n
\* further; called with fewer than n bytes left it returns none and leaves
\* the index where it was.
C29_ConsumeN ==
    (pc = "cursor" /\ result.op = "consume_n") =>
        IF Len(parser.bytes) - result.at >= result.arg
        THEN /\ result.out = Some(SubSeq(parser.bytes, result.at + 1,
                                         result.at + result.arg))
             /\ parser.index = result.at + result.arg
        ELSE /\ result.out = None
             /\ parser.index = result.at

-----------------------------------------------------------------------------
(* C26 *)

\* C26: every iteration of the loop of Description::index moves the cursor
\* forward or ends the loop; wherever the loop stands, Cursor::consume, the
\* body of an iteration of consume_while, moves the cursor by one byte if it
\* returns a byte; every Components::next that returns a component moves
\* byte_idx forward; and the components returned never outnumber the bytes
\* of the text.
C26_Progress ==
    [][/\ (pc = "index" /\ indexing.running) =>
             \/ indexing'.cursor.index > indexing.cursor.index
             \/ ~indexing'.running
       /\ (pc = "index" /\ first(indexing.cursor) # None) =>
             consume(indexing.cursor).p.index = indexing.cursor.index + 1
       /\ (pc = "components" /\ emitted' # emitted) =>
             /\ components'.byte_idx > components.byte_idx
             /\ Len(emitted') <= Len(desc.raw)]_vars

\* C26's case: the components of a text of five bytes were returned, and
\* they were three.
C26_Witness ==
    /\ pc = "done"
    /\ Len(desc.raw) = 5
    /\ Len(emitted) = 3
    /\ components.byte_idx = 5

-----------------------------------------------------------------------------
(* C27 *)

\* C27: Task::from_str of the text of a Task that Task::from_str returned is
\* Ok with the same Task.
C27_CanonicalStable ==
    pc = "reparsed" => reparsed[1] = Some(Parsed)

-----------------------------------------------------------------------------
(* C28 *)

\* The text is one whole token of the type: "x"; a date; a date, or two with
\* one ASCII whitespace byte between; a line, with or without its "\n".
WholeToken(type, s) ==
    IF type = "State" THEN s = <<"x">>
    ELSE IF type = "Date" THEN DateForm(s) /\ Len(s) = 10
    ELSE IF type = "DateCompound"
    THEN /\ DateForm(s)
         /\ Len(s) = 10 \/ (Len(s) = 21 /\ SecondDate(s))
    ELSE /\ s # << >>
         /\ \A i \in 1..(Len(s) - 1) : s[i] # "\n"

\* The text starts with a token of the type.
TokenFirst(type, s) ==
    IF type = "State" THEN StartsWith(s, <<"x">>)
    ELSE IF type \in {"Date", "DateCompound"} THEN DateForm(s)
    ELSE s # << >>

\* The bytes of s up to its first "\n", that byte included; all of s if it
\* has none.
FirstLine(s) ==
    IF "\n" \in Range(s) THEN SubSeq(s, 1, Len(UpToNewline(s)) + 1) ELSE s

\* C28: the from_str of State, Date, DateCompound and Description returns Ok
\* iff the text is one whole token of the type, and an error with the message
\* "more tokens in input" iff the text starts with a token and goes on after
\* it; Task::from_str returns what it returns for the first line of the text
\* alone, whatever follows the first "\n".
C28_WholeInput ==
    pc = "returned" =>
        IF result.type = "Task"
        THEN result.r.value = Task_from_str(FirstLine(text))
        ELSE /\ result.r.ok <=> WholeToken(result.type, text)
             /\ result.r.msg = Some("more tokens in input")
                   <=> (TokenFirst(result.type, text) /\ ~result.r.ok)

-----------------------------------------------------------------------------
(* C30 *)

\* C30: every ByteSpan that new, from_range, with_low, with_high, offset_low,
\* offset_high, offset and union return has low <= high, so that the
\* subtraction of ByteSpan::len does not underflow.
C30_SpanOrdered ==
    pc = "span" => (result.low <= result.high /\ ~ByteSpan_len_panics(result))

====
